---- MODULE Spec2Model ----
(***************************************************************************)
(* SMD Intelligence Hub (src/app.py): the date/ID codec, the date          *)
(* dimension, the demo-data seed, the trend classifier, the                *)
(* target-achievement classification, the insight generator, login and     *)
(* user administration, and the pages of a session, as state machines.     *)
(*                                                                         *)
(* Numbers: REAL columns and pandas floats are modelled as exact           *)
(* rationals over integers; every comparison the code makes on a quotient  *)
(* is made here by cross-multiplication with the sign of the divisor.      *)
(***************************************************************************)
EXTENDS Integers, Sequences, FiniteSets, TLC

VARIABLES
    pc,             \* the function or handler that ran last ("input" before any)
    args,           \* the arguments of the call under observation
    ret,            \* what that call returned (or the table contents it started from)
    today,          \* date.today(), a calendar date
    db_ready,       \* init_db has created the tables
    dim_date,       \* table dim_date: a set of rows, date_id is the PRIMARY KEY
    fact_kpi_data,  \* table fact_kpi_data: a set of rows
    seed_count,     \* number of seed_demo_data runs so far (source of fresh uids)
    dim_department, \* table dim_department: the set of its dept_id values
    dim_kpi,        \* table dim_kpi: a set of rows
    fact_work_item, \* table fact_work_item: a set of rows
    dim_user,       \* table dim_user: a set of rows
    dim_user_schema,        \* the columns of dim_user and whether username is its key
    auth,                   \* st.session_state["auth"] of the browser session
    workspace_categories,   \* table workspace_categories: the set of its category_id values
    workspace_datasets,     \* table workspace_datasets: a set of rows
    workspace_data,         \* table workspace_data: a set of rows
    sessions                \* the concurrent browser sessions: for each its
                            \* session state, the page it shows and the step
                            \* its script has reached

AppVars ==
    <<dim_department, dim_kpi, fact_work_item, dim_user, dim_user_schema, auth,
      workspace_categories, workspace_datasets, workspace_data, sessions>>

vars ==
    <<pc, args, ret, today, db_ready, dim_date, fact_kpi_data, seed_count, AppVars>>

\* Python None and SQL NULL
None == "None"

\* the session before any login and after logout()
NoSession == [logged_in |-> FALSE]

\* dim_user before init_db has created it
NoTable == [columns |-> <<>>, primary_key |-> FALSE]

\* dim_user as CREATE TABLE IF NOT EXISTS makes it
CreatedDimUser ==
    [columns |-> <<"username", "password_hash", "role", "dept_id", "person_id",
                   "is_enabled">>,
     primary_key |-> TRUE]

\* no concurrent session is modelled
NoSessions == << >>

\* every table but dim_date and fact_kpi_data empty, nobody logged in
EmptyApp ==
    /\ dim_department = {}
    /\ dim_kpi = {}
    /\ fact_work_item = {}
    /\ dim_user = {}
    /\ auth = NoSession
    /\ workspace_categories = {}
    /\ workspace_datasets = {}
    /\ workspace_data = {}
    /\ sessions = NoSessions

(***************************************************************************)
(* datetime.date: the proleptic Gregorian calendar, years 1..9999           *)
(* (datetime.MINYEAR, datetime.MAXYEAR).                                   *)
(***************************************************************************)
IsLeap(y) == (y % 4 = 0) /\ ((y % 100 # 0) \/ (y % 400 = 0))

DaysInMonth(y, m) ==
    IF m = 2 THEN (IF IsLeap(y) THEN 29 ELSE 28)
    ELSE IF m \in {4, 6, 9, 11} THEN 30 ELSE 31

\* the check date(y, m, d) makes before it builds a date; ValueError otherwise
ValidYMD(y, m, d) ==
    /\ y >= 1 /\ y <= 9999
    /\ m >= 1 /\ m <= 12
    /\ d >= 1 /\ d <= DaysInMonth(y, m)

MkDate(y, m, d) == [year |-> y, month |-> m, day |-> d]

NoDate == MkDate(0, 0, 0)

\* d1 < d2 and d1 <= d2 of datetime.date: lexicographic on (year, month, day)
DateLT(a, b) ==
    \/ a.year < b.year
    \/ a.year = b.year /\ a.month < b.month
    \/ a.year = b.year /\ a.month = b.month /\ a.day < b.day

DateLE(a, b) == a = b \/ DateLT(a, b)

\* d + timedelta(days=1)
NextDay(d) ==
    IF d.day < DaysInMonth(d.year, d.month) THEN MkDate(d.year, d.month, d.day + 1)
    ELSE IF d.month < 12 THEN MkDate(d.year, d.month + 1, 1)
    ELSE MkDate(d.year + 1, 1, 1)

\* d - timedelta(days=1)
PrevDay(d) ==
    IF d.day > 1 THEN MkDate(d.year, d.month, d.day - 1)
    ELSE IF d.month > 1 THEN MkDate(d.year, d.month - 1, DaysInMonth(d.year, d.month - 1))
    ELSE MkDate(d.year - 1, 12, 31)

RECURSIVE AddDays(_, _)
\* d + timedelta(days=n), n of either sign
AddDays(d, n) ==
    IF n = 0 THEN d
    ELSE IF n > 0 THEN AddDays(NextDay(d), n - 1)
    ELSE AddDays(PrevDay(d), n + 1)

RECURSIVE DaysBeforeMonth(_, _)
DaysBeforeMonth(y, m) ==
    IF m = 1 THEN 0 ELSE DaysBeforeMonth(y, m - 1) + DaysInMonth(y, m - 1)

\* date.toordinal(): 0001-01-01 is day 1
ToOrdinal(d) ==
    LET y1 == d.year - 1
    IN  y1 * 365 + (y1 \div 4) - (y1 \div 100) + (y1 \div 400)
        + DaysBeforeMonth(d.year, d.month) + d.day

\* the ordinal of the Monday that starts ISO week 1 of a year
IsoWeek1Monday(y) ==
    LET firstday == ToOrdinal(MkDate(y, 1, 1))
        firstweekday == (firstday + 6) % 7
        week1monday == firstday - firstweekday
    IN  IF firstweekday > 3 THEN week1monday + 7 ELSE week1monday

\* d.isocalendar()[1]
IsoWeek(d) ==
    LET ord == ToOrdinal(d)
        w0 == ord - IsoWeek1Monday(d.year)
    IN  IF w0 < 0
        THEN ((ord - IsoWeek1Monday(d.year - 1)) \div 7) + 1
        ELSE IF (w0 \div 7) >= 52 /\ ord >= IsoWeek1Monday(d.year + 1)
        THEN 1
        ELSE (w0 \div 7) + 1

(***************************************************************************)
(* Strings of the codec: sequences of one-character strings.               *)
(***************************************************************************)
Digits == <<"0", "1", "2", "3", "4", "5", "6", "7", "8", "9">>

IsDigit(c) == \E i \in 1..10 : Digits[i] = c

DigitVal(c) == (CHOOSE i \in 1..10 : Digits[i] = c) - 1

RECURSIVE StrNat(_)
\* str(n) for n >= 0: no leading zero
StrNat(n) ==
    IF n < 10 THEN <<Digits[n + 1]>>
    ELSE StrNat(n \div 10) \o <<Digits[(n % 10) + 1]>>

\* str(n) of a Python int
Str(n) == IF n < 0 THEN <<"-">> \o StrNat(-n) ELSE StrNat(n)

RECURSIVE ZeroPad(_, _)
\* a digit string left-padded with "0" to a width (%m, %d, and %Y where it pads)
ZeroPad(s, width) == IF Len(s) >= width THEN s ELSE ZeroPad(<<"0">> \o s, width)

\* s[i:j] of a Python string (0-based, end clamped, empty when out of range)
Slice(s, i, j) ==
    LET hi == IF j < Len(s) THEN j ELSE Len(s)
    IN  IF i >= hi THEN <<>> ELSE SubSeq(s, i + 1, hi)

RECURSIVE DigitsValue(_)
DigitsValue(s) ==
    IF Len(s) = 0 THEN 0
    ELSE DigitsValue(SubSeq(s, 1, Len(s) - 1)) * 10 + DigitVal(s[Len(s)])

\* int(s): an optional sign and at least one digit, else ValueError
ParseInt(s) ==
    LET neg  == Len(s) > 0 /\ s[1] = "-"
        body == IF neg THEN Tail(s) ELSE s
    IN  IF Len(body) = 0 \/ \E k \in 1..Len(body) : ~IsDigit(body[k])
        THEN [ok |-> FALSE, val |-> 0]
        ELSE [ok |-> TRUE, val |-> IF neg THEN -DigitsValue(body) ELSE DigitsValue(body)]

\* a day-first format, "%d%m%Y"
StrftimeDayFirst(d, padYear) ==
    ZeroPad(StrNat(d.day), 2) \o ZeroPad(StrNat(d.month), 2)
        \o (IF padYear THEN ZeroPad(StrNat(d.year), 4) ELSE StrNat(d.year))

\* d.strftime("%Y%m%d"); whether %Y pads a year below 1000 to four digits
\* depends on the platform's C library, so it is an input
Strftime(d, padYear) ==
    (IF padYear THEN ZeroPad(StrNat(d.year), 4) ELSE StrNat(d.year))
        \o ZeroPad(StrNat(d.month), 2) \o ZeroPad(StrNat(d.day), 2)

(***************************************************************************)
(* Date/ID codec                                                           *)
(***************************************************************************)
to_date_id_on(d, padYear) == ParseInt(Strftime(d, padYear)).val

\* the format of a build whose %Y does not pad, as on the reference platform
to_date_id(d) == to_date_id_on(d, FALSE)

from_date_id(date_id) ==
    LET s == Str(date_id)
        y == ParseInt(Slice(s, 0, 4))
        m == ParseInt(Slice(s, 4, 6))
        d == ParseInt(Slice(s, 6, 8))
    IN  IF y.ok /\ m.ok /\ d.ok /\ ValidYMD(y.val, m.val, d.val)
        THEN [ok |-> TRUE, val |-> MkDate(y.val, m.val, d.val)]
        ELSE [ok |-> FALSE, val |-> NoDate]

(***************************************************************************)
(* Specification SpecCodec: the codec applied to drawn inputs.             *)
(***************************************************************************)
CodecYears == {1, 999, 1000, 2024, 9999}
CodecMonths == {1, 2, 12}
CodecDays == {1, 10, 29, 31}

CodecDates ==
    {MkDate(y, m, d) : <<y, m, d>> \in
        {t \in CodecYears \X CodecMonths \X CodecDays : ValidYMD(t[1], t[2], t[3])}}

\* integers that are no date id: wrong calendar fields, too short
MalformedIds ==
    {0, 7, 123456, 20240230, 20230229, 20241301, 20240100, 20240001,
     10000000, 99999999}

\* date ids, their neighbours one digit longer and one digit shorter, negatives
DateIdInputs ==
    LET ids == {to_date_id(d) : d \in CodecDates}
    IN  ids \cup {n * 10 + 1 : n \in ids} \cup {n \div 10 : n \in ids}
            \cup {-n : n \in ids} \cup MalformedIds

Epoch == MkDate(2024, 1, 1)

NoRet == [ok |-> FALSE, val |-> NoDate, id |-> 0, id2 |-> 0]

IdleDb ==
    /\ today = Epoch
    /\ db_ready = FALSE
    /\ dim_date = {}
    /\ fact_kpi_data = {}
    /\ seed_count = 0
    /\ EmptyApp
    /\ dim_user_schema = NoTable

InitCodec ==
    /\ pc = "input"
    /\ args \in
        {[d1 |-> a, d2 |-> b, n |-> 0, padYear |-> p] :
            a \in CodecDates, b \in CodecDates, p \in BOOLEAN}
        \cup {[d1 |-> Epoch, d2 |-> Epoch, n |-> k, padYear |-> FALSE] :
            k \in DateIdInputs}
    /\ ret = NoRet
    /\ IdleDb

DbVars == <<today, db_ready, dim_date, fact_kpi_data, seed_count, AppVars>>

\* to_date_id(d1) and to_date_id(d2)
CallToDateId ==
    /\ pc = "input"
    /\ pc' = "to_date_id"
    /\ ret' = [NoRet EXCEPT !.ok = TRUE,
                            !.id = to_date_id_on(args.d1, args.padYear),
                            !.id2 = to_date_id_on(args.d2, args.padYear)]
    /\ UNCHANGED <<args, DbVars>>

\* from_date_id(n)
CallFromDateId ==
    /\ pc = "input"
    /\ pc' = "from_date_id"
    /\ ret' = LET r == from_date_id(args.n)
              IN  [NoRet EXCEPT !.ok = r.ok, !.val = r.val]
    /\ UNCHANGED <<args, DbVars>>

\* from_date_id(to_date_id(d1))
CallRoundTrip ==
    /\ pc = "input"
    /\ pc' = "round_trip"
    /\ ret' = LET id == to_date_id_on(args.d1, args.padYear)
                  r == from_date_id(id)
              IN  [NoRet EXCEPT !.ok = r.ok, !.val = r.val, !.id = id]
    /\ UNCHANGED <<args, DbVars>>

NextCodec == CallToDateId \/ CallFromDateId \/ CallRoundTrip

SpecCodec == InitCodec /\ [][NextCodec]_vars

(***************************************************************************)
(* Claims on the codec (SpecCodec)                                         *)
(***************************************************************************)
\* C1: for every valid calendar date d, from_date_id(to_date_id(d)) returns
\* exactly d.
C1_RoundTrip ==
    pc = "round_trip" => ret.ok /\ ret.val = args.d1

\* C2: to_date_id(d) = year*10000 + month*100 + day on every platform, so it
\* is strictly monotonic with calendar order and injective: d1 < d2 iff
\* to_date_id(d1) < to_date_id(d2), and d1 = d2 iff the ids are equal.
C2_ToDateIdMonotonic ==
    pc = "to_date_id" =>
        /\ ret.id = args.d1.year * 10000 + args.d1.month * 100 + args.d1.day
        /\ DateLT(args.d1, args.d2) <=> ret.id < ret.id2
        /\ args.d1 = args.d2 <=> ret.id = ret.id2

\* two dates on either side of the year-1000 width change, the later one with
\* the smaller month and day, formatted without padding
C2_Witness ==
    /\ pc = "to_date_id"
    /\ args.padYear = FALSE
    /\ args.d1 = MkDate(999, 12, 31)
    /\ args.d2 = MkDate(1000, 1, 1)
    /\ ret.id < ret.id2

\* the decimal representation of n has exactly 8 digits and its YYYY, MM, DD
\* fields denote a calendar date
IsWellFormedDateId(n) ==
    /\ n >= 10000000 /\ n <= 99999999
    /\ ValidYMD(n \div 10000, (n \div 100) % 100, n % 100)

\* C3: from_date_id fails for every integer that is not exactly 8 digits and
\* for every 8-digit integer whose fields are no calendar date; it never
\* returns a date for such an input.
C3_FromDateIdRejectsMalformed ==
    pc = "from_date_id" /\ ~IsWellFormedDateId(args.n) => ~ret.ok

(***************************************************************************)
(* Table dim_date and ensure_dim_date                                      *)
(***************************************************************************)
\* d.isoformat(): "YYYY-MM-DD"
IsoFormat(d) ==
    ZeroPad(StrNat(d.year), 4) \o <<"-">> \o ZeroPad(StrNat(d.month), 2)
        \o <<"-">> \o ZeroPad(StrNat(d.day), 2)

\* a quarter numbered from the month without the -1
QuarterOffByOne(m) == (m \div 3) + 1

\* (d.month-1)//3+1
Quarter(m) == ((m - 1) \div 3) + 1

\* the tuple ensure_dim_date binds to the INSERT
DimDateRow(d) ==
    [date_id |-> to_date_id(d), date |-> IsoFormat(d), month |-> d.month,
     quarter |-> Quarter(d.month), year |-> d.year, week |-> IsoWeek(d)]

\* INSERT OR IGNORE INTO dim_date: date_id is the PRIMARY KEY, a row whose key
\* is present is dropped
InsertOrIgnoreDimDate(table, row) ==
    IF \E r \in table : r.date_id = row.date_id THEN table ELSE table \cup {row}

RECURSIVE EnsureLoop(_, _, _)
\* while d <= end_date: INSERT OR IGNORE ...; d += timedelta(days=1)
EnsureLoop(table, d, end_date) ==
    IF DateLE(d, end_date)
    THEN EnsureLoop(InsertOrIgnoreDimDate(table, DimDateRow(d)), NextDay(d), end_date)
    ELSE table

\* a loop that stops one day early
EnsureExclusiveEnd(table, start_date, end_date) ==
    IF DateLT(start_date, end_date)
    THEN EnsureLoop(table, start_date, PrevDay(end_date))
    ELSE table

\* ensure_dim_date(start_date, end_date): the table after the commit
ensure_dim_date(table, start_date, end_date) == EnsureLoop(table, start_date, end_date)

(***************************************************************************)
(* Specification SpecEnsure: ensure_dim_date called with ranges around     *)
(* today, on an initially empty dim_date.                                  *)
(***************************************************************************)
EnsureBack == 1
EnsureFwd == 2

\* days next to a leap day, a quarter end, and two year ends (ISO weeks 52,
\* 53 and 1)
EnsureTodays ==
    {MkDate(2024, 2, 28), MkDate(2024, 3, 31), MkDate(2024, 12, 30), MkDate(2020, 12, 31)}

InitEnsure ==
    /\ pc = "input"
    /\ args = [start_date |-> Epoch, end_date |-> Epoch]
    /\ ret = {}
    /\ today \in EnsureTodays
    /\ db_ready = TRUE
    /\ dim_date = {}
    /\ fact_kpi_data = {}
    /\ seed_count = 0
    /\ EmptyApp
    /\ dim_user_schema = CreatedDimUser

CallEnsureDimDate ==
    \E a, b \in (0 - EnsureBack)..EnsureFwd :
        LET start_date == AddDays(today, a)
            end_date == AddDays(today, b)
        IN  /\ pc' = "ensure_dim_date"
            /\ args' = [start_date |-> start_date, end_date |-> end_date]
            /\ ret' = dim_date
            /\ dim_date' = ensure_dim_date(dim_date, start_date, end_date)
            /\ UNCHANGED <<today, db_ready, fact_kpi_data, seed_count, AppVars>>

NextEnsure == CallEnsureDimDate

SpecEnsure == InitEnsure /\ [][NextEnsure]_vars

(***************************************************************************)
(* Claims on ensure_dim_date (SpecEnsure)                                  *)
(***************************************************************************)
\* every calendar date of the month of d and of the months before and after it
CalendarAround(d) ==
    LET prev == IF d.month = 1 THEN <<d.year - 1, 12>> ELSE <<d.year, d.month - 1>>
        next == IF d.month = 12 THEN <<d.year + 1, 1>> ELSE <<d.year, d.month + 1>>
    IN  UNION {{MkDate(ym[1], ym[2], dd) : dd \in 1..DaysInMonth(ym[1], ym[2])} :
                  ym \in {prev, <<d.year, d.month>>, next}}

\* the ISO 8601 week number by its definition: the week (Monday to Sunday)
\* of d counts from the week that holds the first Thursday of the year its
\* own Thursday falls in
IsoWeekByThursday(d) ==
    LET ord == ToOrdinal(d)
        thursday == ord - ((ord + 6) % 7) + 3
        jan1 == ToOrdinal(MkDate(d.year, 1, 1))
        nextJan1 == ToOrdinal(MkDate(d.year + 1, 1, 1))
        isoJan1 == IF thursday < jan1 THEN ToOrdinal(MkDate(d.year - 1, 1, 1))
                   ELSE IF thursday >= nextJan1 THEN nextJan1 ELSE jan1
    IN  ((thursday - isoJan1) \div 7) + 1

\* the row the claim describes for a calendar day
ClaimedDimDateRow(r, d) ==
    /\ r.date_id = d.year * 10000 + d.month * 100 + d.day
    /\ r.month = d.month
    /\ r.quarter = ((d.month - 1) \div 3) + 1
    /\ r.year = d.year
    /\ r.week = IsoWeekByThursday(d)

\* C4: ensure_dim_date(start, end) is look-up-or-create. Afterwards every row
\* that was present is still there unchanged, every calendar day of
\* [start, end] has exactly one row, each added row belongs to a day of
\* [start, end] that had none and carries date_id, month,
\* quarter = (month-1) div 3 + 1, year and ISO week of that day; a second call
\* with the same range changes nothing, and a range with start > end adds no
\* row.
C4_EnsureDimDateLookupOrCreate ==
    pc = "ensure_dim_date" =>
        LET days == {d \in CalendarAround(today) :
                        DateLE(args.start_date, d) /\ DateLE(d, args.end_date)}
            added == dim_date \ ret
        IN  /\ {args.start_date, args.end_date} \subseteq CalendarAround(today)
            /\ ret \subseteq dim_date
            /\ \A d \in days :
                   Cardinality({r \in dim_date : ClaimedDimDateRow(r, d)}) = 1
            /\ \A r \in added :
                   \E d \in days :
                       /\ ClaimedDimDateRow(r, d)
                       /\ ~\E q \in ret : q.date_id = r.date_id
            /\ \A r, q \in dim_date : r.date_id = q.date_id => r = q
            /\ ensure_dim_date(dim_date, args.start_date, args.end_date) = dim_date
            /\ DateLT(args.end_date, args.start_date) => dim_date = ret

\* a call over a range that crosses a month end, of which one day had a row
\* and the others got theirs
C4_Witness ==
    /\ pc = "ensure_dim_date"
    /\ DateLT(args.start_date, args.end_date)
    /\ args.start_date.month # args.end_date.month
    /\ ret # {}
    /\ \E r \in ret : r.date_id = to_date_id(args.start_date)
    /\ Cardinality(dim_date \ ret) >= 2

(***************************************************************************)
(* init_db and seed_demo_data                                              *)
(*                                                                         *)
(* The seed's windows are scaled: the source fills dim_date from 365 days  *)
(* before today to 90 days after it and writes facts for the last 90 days. *)
(* Values of REAL columns are in hundredths.                               *)
(***************************************************************************)
DimBackDays == 4
DimFwdDays == 2
FactDays == 3
MaxAdvance == 8
MaxSeeds == 3
SalesRows == 2

\* the outcomes of the random module the model draws per seed run
RandomDraws == {0, 1}

\* dept_id, kpi_id and target_value of the nine seeded KPI series
SeedKpis ==
    << [dept_id |-> "MDS", kpi_id |-> "MDS_K1", target_value |-> 10000],
       [dept_id |-> "MDS", kpi_id |-> "MDS_K2", target_value |-> 2500],
       [dept_id |-> "MDS", kpi_id |-> "MDS_K3", target_value |-> 8000],
       [dept_id |-> "SGS", kpi_id |-> "SGS_K1", target_value |-> 8000],
       [dept_id |-> "SGS", kpi_id |-> "SGS_K2", target_value |-> 4000],
       [dept_id |-> "BMS", kpi_id |-> "BMS_K1", target_value |-> 9500],
       [dept_id |-> "BMS", kpi_id |-> "BMS_K2", target_value |-> 500],
       [dept_id |-> "IT", kpi_id |-> "IT_K1", target_value |-> 9950],
       [dept_id |-> "IT", kpi_id |-> "IT_K2", target_value |-> 200] >>

Min2(a, b) == IF a < b THEN a ELSE b
Max2(a, b) == IF a > b THEN a ELSE b

\* actual_value of series k on day i of the loop; a random term takes the
\* low end of its range when lo is TRUE and the high end otherwise
SeedActual(k, i, lo) ==
    LET pick(a, b) == IF lo THEN a ELSE b
    IN  CASE k = 1 -> pick(8000, 15000) + i * 30
          [] k = 2 -> pick(1500, 3000)
          [] k = 3 -> pick(5000, 10000) + i * 50
          [] k = 4 -> Min2(4500 + i * 50 + pick(-500, 500), 10000)
          [] k = 5 -> Max2(7000 - i * 20 + pick(-500, 500), 2000)
          [] k = 6 -> Min2(8500 + i * 10 + pick(-200, 200), 9900)
          [] k = 7 -> Max2(1500 - i * 10 + pick(-200, 200), 200)
          [] k = 8 -> pick(9900, 9999)
          [] OTHER -> pick(0, 500)

\* the first day given to ensure_dim_date when nothing before today is asked for
SeedDimStartToday(t) == t

\* today - timedelta(days=365)
SeedDimStart(t) == AddDays(t, 0 - DimBackDays)

\* today + timedelta(days=90)
SeedDimEnd(t) == AddDays(t, DimFwdDays)

\* d = today - timedelta(days=89-i)
SeedFactDate(t, i) == AddDays(t, 0 - ((FactDays - 1) - i))

\* the kpi_data list: one row per day of the loop and seeded series, each
\* with a fresh uid
SeedKpiData(t, run, draw) ==
    {[record_id |-> <<run, i, k>>,
      date_id |-> to_date_id(SeedFactDate(t, i)),
      dept_id |-> SeedKpis[k].dept_id,
      kpi_id |-> SeedKpis[k].kpi_id,
      actual_value |-> SeedActual(k, i, (draw + i + k) % 2 = 0),
      target_value |-> SeedKpis[k].target_value] :
        i \in 0..(FactDays - 1), k \in 1..Len(SeedKpis)}

\* replace_table("dim_department", ...): the dept_id values
SeedDepartments == {"MDS", "SGS", "BMS", "IT"}

\* target_direction of the seeded KPI k
SeedDirection(k) ==
    IF SeedKpis[k].kpi_id \in {"SGS_K2", "BMS_K2", "IT_K2"}
    THEN "lower_is_better" ELSE "higher_is_better"

\* replace_table("dim_kpi", ...)
SeedDimKpi ==
    {[kpi_id |-> SeedKpis[k].kpi_id, dept_id |-> SeedKpis[k].dept_id,
      target_direction |-> SeedDirection(k)] : k \in 1..Len(SeedKpis)}

\* replace_table("workspace_categories", ...): the category_id values
SeedCategories ==
    {"CAT_REGION", "CAT_PRODUCT", "CAT_CUSTOMER", "CAT_CHANNEL", "CAT_PERIOD"}

\* replace_table("workspace_datasets", ...)
SeedDatasets ==
    {[dataset_id |-> "DS_SALES_2024", dept_id |-> "MDS", created_by |-> "admin",
      row_count |-> SalesRows]}

\* replace_table("workspace_data", ...): the sales rows, each with a fresh uid
SeedWorkspaceData(run) ==
    {[data_id |-> <<run, i>>, dataset_id |-> "DS_SALES_2024", row_index |-> i] :
        i \in 0..(SalesRows - 1)}

\* hashlib.sha256(text.encode("utf-8")).hexdigest(): the digest of a text is
\* a value of its own kind, different texts have different digests
sha256(text) == <<"sha256", text>>

\* one row of the users DataFrame of the seed
SeedUser(username, role, dept_id) ==
    [username |-> username, password_hash |-> sha256("demo123"), role |-> role,
     dept_id |-> dept_id, is_enabled |-> 1]

\* replace_table("dim_user", ...)
SeedUsers ==
    {SeedUser("admin", "Admin", None), SeedUser("executive", "Executive", None),
     SeedUser("mds_head", "DeptHead", "MDS"), SeedUser("sgs_head", "DeptHead", "SGS"),
     SeedUser("bms_head", "DeptHead", "BMS"), SeedUser("it_head", "DeptHead", "IT")}

\* dim_user as to_sql(if_exists="replace") recreates it: the columns of the
\* DataFrame and no key
ReplacedDimUser ==
    [columns |-> <<"username", "password_hash", "role", "dept_id", "is_enabled">>,
     primary_key |-> FALSE]

\* days on which the first run of the application may fall
SeedTodays == {MkDate(2024, 2, 27), MkDate(2024, 12, 29)}

Init ==
    /\ pc = "start"
    /\ args = [start_date |-> Epoch, end_date |-> Epoch]
    /\ ret = {}
    /\ today \in SeedTodays
    /\ db_ready = FALSE
    /\ dim_date = {}
    /\ fact_kpi_data = {}
    /\ seed_count = 0
    /\ EmptyApp
    /\ dim_user_schema = NoTable

\* the tables init_db and seed_demo_data leave alone, and the session
SessionVars == <<fact_work_item, auth, sessions>>

\* init_db(): CREATE TABLE IF NOT EXISTS for every table; existing tables and
\* their rows are left as they are
InitDb ==
    /\ pc' = "init_db"
    /\ db_ready' = TRUE
    /\ dim_user_schema' = IF db_ready THEN dim_user_schema ELSE CreatedDimUser
    /\ UNCHANGED <<args, ret, today, dim_date, fact_kpi_data, seed_count>>
    /\ UNCHANGED <<dim_department, dim_kpi, dim_user, workspace_categories,
                   workspace_datasets, workspace_data, SessionVars>>

\* seed_demo_data(): fill dim_date around today, then replace fact_kpi_data
\* wholesale with the generated rows
SeedDemoData ==
    /\ db_ready
    /\ seed_count < MaxSeeds
    /\ \E draw \in RandomDraws :
        /\ dim_date' = ensure_dim_date(dim_date, SeedDimStart(today), SeedDimEnd(today))
        /\ fact_kpi_data' = SeedKpiData(today, seed_count + 1, draw)
    /\ seed_count' = seed_count + 1
    /\ dim_department' = SeedDepartments
    /\ dim_kpi' = SeedDimKpi
    /\ workspace_categories' = SeedCategories
    /\ workspace_datasets' = SeedDatasets
    /\ workspace_data' = SeedWorkspaceData(seed_count + 1)
    /\ dim_user' = SeedUsers
    /\ dim_user_schema' = ReplacedDimUser
    /\ pc' = "seed_demo_data"
    /\ UNCHANGED <<args, ret, today, db_ready, SessionVars>>

\* midnight passes: date.today() moves to the next day
AdvanceDay ==
    /\ \E t0 \in SeedTodays, n \in 0..(MaxAdvance - 1) : today = AddDays(t0, n)
    /\ today' = NextDay(today)
    /\ pc' = "tick"
    /\ UNCHANGED <<args, ret, db_ready, dim_date, fact_kpi_data, seed_count, AppVars>>

Next == InitDb \/ SeedDemoData \/ AdvanceDay

Spec == Init /\ [][Next]_vars

(***************************************************************************)
(* Claims on the seed (Spec)                                               *)
(***************************************************************************)
DateIdOf(d) == d.year * 10000 + d.month * 100 + d.day

\* C5: after any sequence of init_db and seed_demo_data runs, on the same or
\* on different days, every date_id of fact_kpi_data has a dim_date row, and
\* every calendar day from the earliest to the latest date of a fact has one.
C5_FactDatesCovered ==
    LET used == {f.date_id : f \in fact_kpi_data}
        have == {r.date_id : r \in dim_date}
        earliest == CHOOSE n \in used : \A k \in used : n <= k
        latest == CHOOSE n \in used : \A k \in used : n >= k
    IN  /\ used \subseteq have
        /\ used \subseteq {DateIdOf(d) : d \in CalendarAround(today)}
        /\ used # {} =>
               \A d \in CalendarAround(today) :
                   earliest <= DateIdOf(d) /\ DateIdOf(d) <= latest
                       => DateIdOf(d) \in have

\* a second seed run, so long after the first that dim_date itself has a gap
\* between the two filled ranges
C5_Witness ==
    /\ pc = "seed_demo_data"
    /\ seed_count >= 2
    /\ fact_kpi_data # {}
    /\ \E d \in CalendarAround(today) :
           /\ ~\E r \in dim_date : r.date_id = DateIdOf(d)
           /\ \E r, q \in dim_date : r.date_id < DateIdOf(d) /\ DateIdOf(d) < q.date_id

(***************************************************************************)
(* Trend classifier                                                        *)
(*                                                                         *)
(* A mean is the pair sum/count; change is the pair num/den with den > 0,  *)
(* and nan marks the float NaN (the mean of an empty window).              *)
(***************************************************************************)
RECURSIVE SumSeq(_)
SumSeq(s) == IF Len(s) = 0 THEN 0 ELSE Head(s) + SumSeq(Tail(s))

\* series.tail(n), n >= 0: the last n elements, all of them when n >= len
SeriesTail(s, n) ==
    IF n >= Len(s) THEN s ELSE SubSeq(s, Len(s) - n + 1, Len(s))

\* series.head(n), n >= 0
SeriesHead(s, n) == IF n >= Len(s) THEN s ELSE SubSeq(s, 1, n)

\* series.mean()
Mean(s) == [sum |-> SumSeq(s), count |-> Len(s)]

TrendResult(direction, num, den, nan) ==
    [direction |-> direction, num |-> num, den |-> den, nan |-> nan]

\* the baseline over a window of the same size as the recent one
PreviousSameWindow(series, periods) ==
    IF Len(series) > periods
    THEN Mean(SeriesTail(SeriesHead(series, Len(series) - periods), periods))
    ELSE [sum |-> series[1], count |-> 1]

\* previous = series.head(len(series)-periods).mean() if len(series) > periods
\*            else series.iloc[0]
Previous(series, periods) ==
    IF Len(series) > periods
    THEN Mean(SeriesHead(series, Len(series) - periods))
    ELSE [sum |-> series[1], count |-> 1]

\* lines 502-507: change = ((recent - previous) / previous) * 100 and its
\* comparison with 5 and -5. A float division by zero gives an infinity of
\* the numerator's sign, or NaN; any comparison with NaN is false.
ChangeAndDirection(recent, previous) ==
    LET n0 == (recent.sum * previous.count - previous.sum * recent.count) * 100
        d0 == recent.count * previous.sum
        num == IF d0 < 0 THEN 0 - n0 ELSE n0
        den == IF d0 < 0 THEN 0 - d0 ELSE d0
    IN  IF recent.count = 0 THEN TrendResult("stable", 0, 1, TRUE)
        ELSE IF den = 0 /\ num > 0 THEN TrendResult("up", 1, 0, FALSE)
        ELSE IF den = 0 /\ num < 0 THEN TrendResult("down", -1, 0, FALSE)
        ELSE IF den = 0 THEN TrendResult("stable", 0, 1, TRUE)
        ELSE IF num > 5 * den THEN TrendResult("up", num, den, FALSE)
        ELSE IF num < (0 - 5) * den THEN TrendResult("down", num, den, FALSE)
        ELSE TrendResult("stable", num, den, FALSE)

\* the classification without the previous == 0 test
ClassifyNoZeroGuard(recent, previous) == ChangeAndDirection(recent, previous)

\* lines 500-507: the zero test, then change and direction
Classify(recent, previous) ==
    IF previous.sum = 0 THEN TrendResult("new", 0, 1, FALSE)
    ELSE ChangeAndDirection(recent, previous)

\* a guard that lets a single point through
calculate_trend_guard_empty_only(series, periods) ==
    IF Len(series) < 1 THEN TrendResult("stable", 0, 1, FALSE)
    ELSE Classify(Mean(SeriesTail(series, periods)), Previous(series, periods))

calculate_trend(series, periods) ==
    IF Len(series) < 2 THEN TrendResult("stable", 0, 1, FALSE)
    ELSE Classify(Mean(SeriesTail(series, periods)), Previous(series, periods))

(***************************************************************************)
(* Specification SpecTrend: calculate_trend applied to drawn series.       *)
(***************************************************************************)
MaxSeriesLen == 4
MaxPeriods == 3
DefaultPeriods == 7

\* values around a baseline of 20 that put change at, above and below 5 %
SeriesValues == {-20, 0, 18, 20, 22, 23}

ScenarioSeries == <<80, 90, 95, 100, 110, 120, 130, 140, 150>>

RECURSIVE SeqsUpTo(_, _)
SeqsUpTo(S, n) ==
    IF n = 0 THEN {<<>>}
    ELSE LET shorter == SeqsUpTo(S, n - 1)
         IN  shorter \cup {Append(q, x) : q \in shorter, x \in S}

TrendPeriods == (0..MaxPeriods) \cup {DefaultPeriods}

InitTrend ==
    /\ pc = "input"
    /\ args \in {[series |-> q, periods |-> p] :
                    q \in SeqsUpTo(SeriesValues, MaxSeriesLen) \cup {ScenarioSeries},
                    p \in TrendPeriods}
    /\ ret = TrendResult("none", 0, 1, FALSE)
    /\ IdleDb

CallCalculateTrend ==
    /\ pc = "input"
    /\ pc' = "calculate_trend"
    /\ ret' = calculate_trend(args.series, args.periods)
    /\ UNCHANGED <<args, DbVars>>

NextTrend == CallCalculateTrend

SpecTrend == InitTrend /\ [][NextTrend]_vars

(***************************************************************************)
(* Claims on the trend classifier (SpecTrend)                              *)
(***************************************************************************)
\* C6: for every series with fewer than 2 elements and every window size,
\* calculate_trend returns ("stable", 0).
C6_ShortSeriesStable ==
    pc = "calculate_trend" /\ Len(args.series) < 2 =>
        ret.direction = "stable" /\ ret.num = 0 /\ ~ret.nan

\* a single point of value 0 under the default window
C6_Witness ==
    /\ pc = "calculate_trend"
    /\ args.series = <<0>>
    /\ args.periods = DefaultPeriods
    /\ ret.direction = "stable"

\* the previous baseline of the claim is 0: the elements before the last
\* `periods` add up to 0 when the series is longer than `periods`, else the
\* first element is 0
BaselineIsZero(series, periods) ==
    IF Len(series) > periods
    THEN SumSeq(SubSeq(series, 1, Len(series) - periods)) = 0
    ELSE series[1] = 0

\* C7: for every series of length >= 2 whose previous baseline is 0,
\* calculate_trend returns ("new", 0); no quotient with a zero divisor is
\* formed.
C7_ZeroBaselineIsNew ==
    pc = "calculate_trend" /\ Len(args.series) >= 2
            /\ BaselineIsZero(args.series, args.periods) =>
        ret.direction = "new" /\ ret.num = 0 /\ ret.den # 0 /\ ~ret.nan

\* a prefix of mixed sign whose mean is 0, before a non-zero recent window
C7_Witness ==
    /\ pc = "calculate_trend"
    /\ args.series = <<-20, 20, 22>>
    /\ args.periods = 1
    /\ ret.direction = "new"

\* C8: for every series of length >= 2 and periods >= 1 with a non-zero
\* previous baseline, change = (recent - previous) / previous * 100, recent
\* the mean of the last `periods` elements, previous the mean of all elements
\* before them when len > periods and the first element otherwise; direction
\* is "up" iff change > 5, "down" iff change < -5, "stable" otherwise (5 and
\* -5 are stable). The scenario series with periods = 3 is "up", with a
\* change between 41 and 42.
C8_TrendFormula ==
    pc = "calculate_trend" /\ Len(args.series) >= 2 /\ args.periods >= 1
            /\ ~BaselineIsZero(args.series, args.periods) =>
        LET s == args.series
            n == Len(s)
            k == IF args.periods < n THEN args.periods ELSE n
            \* recent = rs / k, previous = ps / pn
            rs == SumSeq(SubSeq(s, n - k + 1, n))
            ps == IF n > args.periods THEN SumSeq(SubSeq(s, 1, n - args.periods)) ELSE s[1]
            pn == IF n > args.periods THEN n - args.periods ELSE 1
            \* change = cn / cd = (rs/k - ps/pn) / (ps/pn) * 100
            cn == (rs * pn - ps * k) * 100
            cd == ps * k
            above5 == IF cd > 0 THEN cn > 5 * cd ELSE cn < 5 * cd
            belowMinus5 == IF cd > 0 THEN cn < (0 - 5) * cd ELSE cn > (0 - 5) * cd
        IN  /\ ~ret.nan /\ ret.den > 0
            /\ ret.num * cd = cn * ret.den
            /\ ret.direction = "up" <=> above5
            /\ ret.direction = "down" <=> belowMinus5
            /\ ret.direction = "stable" <=> ~above5 /\ ~belowMinus5
            /\ s = ScenarioSeries /\ args.periods = 3 =>
                   /\ ret.direction = "up"
                   /\ 41 * ret.den < ret.num /\ ret.num < 42 * ret.den

\* change is exactly 5 over a prefix longer than the recent window: stable
C8_Witness ==
    /\ pc = "calculate_trend"
    /\ args.series = <<20, 20, 20, 22>>
    /\ args.periods = 2
    /\ ret.direction = "stable"
    /\ ret.num = 5 * ret.den

(***************************************************************************)
(* Target-achievement classification                                       *)
(***************************************************************************)
\* Python truthiness of a number
Truthy(x) == x # 0

\* generate_insights, lines 535-549: the insight appended for the latest fact
\* of a KPI ("none" when nothing is appended); target * 0.8 and target * 1.5
\* are compared in tenths and in halves
InsightType(actual, target, target_direction) ==
    IF Truthy(target) /\ Truthy(actual)
    THEN IF target_direction = "higher_is_better"
         THEN IF actual >= target THEN "success"
              ELSE IF 10 * actual < 8 * target THEN "danger"
              ELSE "none"
         ELSE IF actual <= target THEN "success"
              ELSE IF 2 * actual > 3 * target THEN "danger"
              ELSE "none"
    ELSE "none"

\* create_kpi_card, lines 581-587: status_class; ratio = value / target is
\* compared with 1 and 0.8 by the sign of target
KpiCardStatus(value, target) ==
    IF Truthy(target)
    THEN LET ge1 == IF target > 0 THEN value >= target ELSE value <= target
             ge08 == IF target > 0 THEN 10 * value >= 8 * target
                     ELSE 10 * value <= 8 * target
         IN  IF ge1 THEN "green" ELSE IF ge08 THEN "amber" ELSE "red"
    ELSE "blue"

\* SQL AVG(actual_value / NULLIF(target_value, 0)) over the rows of one
\* department on its latest date: the pair num/den with den > 0 that sums
\* the ratios of the rows whose target is not 0, and how many they are
RECURSIVE RatioSum(_)
RatioSum(rows) ==
    IF Len(rows) = 0 THEN [num |-> 0, den |-> 1, count |-> 0]
    ELSE LET r == Head(rows)
             rest == RatioSum(Tail(rows))
             t == IF r.target_value < 0 THEN 0 - r.target_value ELSE r.target_value
             a == IF r.target_value < 0 THEN 0 - r.actual_value ELSE r.actual_value
         IN  IF r.target_value = 0 THEN rest
             ELSE [num |-> rest.num * t + a * rest.den,
                   den |-> rest.den * t,
                   count |-> rest.count + 1]

\* render_executive_dashboard, lines 1480-1486: the status of a department
\* card; the average is NULL when no row has a non-zero target, and a NULL
\* or zero average makes achievement 0
ExecutiveStatus(rows) ==
    LET s == RatioSum(rows)
        isNull == s.count = 0
        falsy == isNull \/ s.num = 0
        ge100 == ~falsy /\ 100 * s.num >= 100 * s.den * s.count
        ge80 == ~falsy /\ 100 * s.num >= 80 * s.den * s.count
    IN  IF ge100 THEN "green" ELSE IF ge80 THEN "amber" ELSE "red"

(***************************************************************************)
(* Specification SpecTarget: the classifications applied to drawn values.  *)
(***************************************************************************)
\* actual values on and next to the tier boundaries of the two targets
ActualValues == {0, 6, 7, 8, 12, 13, 79, 80, 99, 100, 150, 151}
TargetValues == {0, 8, 100}
TargetDirections == {"higher_is_better", "lower_is_better"}

InitTarget ==
    /\ pc = "input"
    /\ args \in [actual : ActualValues, target : TargetValues,
                 target_direction : TargetDirections]
    /\ ret = [kind |-> "none"]
    /\ IdleDb

\* the classification generate_insights makes of (actual, target, direction)
CallInsightType ==
    /\ pc = "input"
    /\ pc' = "generate_insights"
    /\ ret' = [kind |-> InsightType(args.actual, args.target, args.target_direction)]
    /\ UNCHANGED <<args, DbVars>>

\* create_kpi_card(title, actual, target), as render_dept_dashboard calls it
CallKpiCard ==
    /\ pc = "input"
    /\ pc' = "create_kpi_card"
    /\ ret' = [kind |-> KpiCardStatus(args.actual, args.target)]
    /\ UNCHANGED <<args, DbVars>>

\* render_executive_dashboard for a department whose latest date holds this
\* one KPI row
CallExecutiveStatus ==
    /\ pc = "input"
    /\ pc' = "render_executive_dashboard"
    /\ ret' = [kind |-> ExecutiveStatus(
                   << [actual_value |-> args.actual, target_value |-> args.target] >>)]
    /\ UNCHANGED <<args, DbVars>>

NextTarget == CallInsightType \/ CallKpiCard \/ CallExecutiveStatus

SpecTarget == InitTarget /\ [][NextTarget]_vars

(***************************************************************************)
(* Claims on the target-achievement classification (SpecTarget)            *)
(***************************************************************************)
\* C9: for a higher_is_better KPI with a non-zero target the status is
\* on-target iff actual >= target, breach iff actual < 0.8 * target, at-risk
\* otherwise; the KPI card is green, red or amber and the insight is success,
\* danger or absent accordingly.
C9_HigherIsBetterTiers ==
    args.target_direction = "higher_is_better" /\ args.target # 0 =>
        LET onTarget == args.actual >= args.target
            breach == 10 * args.actual < 8 * args.target
        IN  /\ pc = "create_kpi_card" =>
                   ret.kind = IF onTarget THEN "green"
                              ELSE IF breach THEN "red" ELSE "amber"
            /\ pc = "generate_insights" =>
                   ret.kind = IF onTarget THEN "success"
                              ELSE IF breach THEN "danger" ELSE "none"

\* C10: for a lower_is_better KPI with a non-zero target the status is
\* on-target iff actual <= target, breach iff actual > 1.5 * target (strict),
\* at-risk otherwise; actual = 12 against target = 8 is at-risk.
C10_LowerIsBetterTiers ==
    pc = "generate_insights" /\ args.target_direction = "lower_is_better"
            /\ args.target # 0 =>
        LET onTarget == args.actual <= args.target
            breach == 2 * args.actual > 3 * args.target
        IN  ret.kind = IF onTarget THEN "success"
                       ELSE IF breach THEN "danger" ELSE "none"

\* the tier the direction-specific rule gives (actual, target)
DirectionTier(actual, target, target_direction) ==
    IF target_direction = "higher_is_better"
    THEN IF actual >= target THEN "on_target"
         ELSE IF 10 * actual < 8 * target THEN "breach" ELSE "at_risk"
    ELSE IF actual <= target THEN "on_target"
         ELSE IF 2 * actual > 3 * target THEN "breach" ELSE "at_risk"

\* the tier a card colour, an executive status or an insight stands for
ShownTier(kind) ==
    CASE kind \in {"green", "success"} -> "on_target"
      [] kind \in {"red", "danger"} -> "breach"
      [] kind \in {"amber", "none"} -> "at_risk"
      [] OTHER -> "informational"

\* C11: for the same (actual, target) pair with a non-zero target, the KPI
\* card colour, the executive achievement status and the insight polarity all
\* show the tier of the KPI's target_direction; a lower_is_better KPI with
\* actual <= target is never red or breach, and one with actual > 1.5 * target
\* is never green or on-target.
C11_DirectionRespected ==
    pc # "input" /\ args.target # 0 =>
        ShownTier(ret.kind)
            = DirectionTier(args.actual, args.target, args.target_direction)

\* C12: with a target of zero the KPI card is blue, no on-target or breach
\* insight is emitted, and the executive dashboard gives the department none
\* of the statuses green, amber and red.
C12_FalsyTargetIsInformational ==
    args.target = 0 =>
        /\ pc = "create_kpi_card" => ret.kind = "blue"
        /\ pc = "generate_insights" => ret.kind = "none"
        /\ pc = "render_executive_dashboard" =>
               ret.kind \notin {"green", "amber", "red"}

(***************************************************************************)
(* generate_insights                                                       *)
(*                                                                         *)
(* An insight is the record of the KPI it is about, its type and severity, *)
(* and the topic of its text; the list is modelled as the set of its       *)
(* members.                                                                *)
(***************************************************************************)
LookbackDays == 7

\* week_ago_id = to_date_id(date.today() - timedelta(days=7))
WeekAgoId(t) == to_date_id(AddDays(t, 0 - LookbackDays))

\* the WHERE clause on the department: added when dept_id is truthy
DeptClause(dept_id, f) ==
    dept_id # None /\ dept_id # "" => f.dept_id = dept_id

\* a LEFT JOIN: a fact without a dim_kpi row is kept, with the direction
\* that .get('target_direction', 'higher_is_better') falls back to
JoinDimKpiLeft(facts, kpis) ==
    {q \in facts \X kpis : q[1].kpi_id = q[2].kpi_id}
        \cup {<<f, [kpi_id |-> f.kpi_id, target_direction |-> "higher_is_better"]>> :
                 f \in {x \in facts : \A d \in kpis : d.kpi_id # x.kpi_id}}

\* FROM fact_kpi_data k JOIN dim_kpi d ON k.kpi_id = d.kpi_id: the pairs of
\* a fact and its KPI definition
JoinDimKpi(facts, kpis) ==
    {q \in facts \X kpis : q[1].kpi_id = q[2].kpi_id}

\* kpi_df without the lookback window
KpiDfAllDates(facts, kpis, t, dept_id) ==
    {[kpi_id |-> p[1].kpi_id, date_id |-> p[1].date_id, dept_id |-> p[1].dept_id,
      actual_value |-> p[1].actual_value, target_value |-> p[1].target_value,
      target_direction |-> p[2].target_direction] :
        p \in {q \in facts \X kpis :
                 /\ q[1].kpi_id = q[2].kpi_id
                 /\ DeptClause(dept_id, q[1])}}

\* kpi_df: fact_kpi_data JOIN dim_kpi ON kpi_id, from week_ago_id on, of the
\* department when one is given
KpiDf(facts, kpis, t, dept_id) ==
    LET week_ago_id == WeekAgoId(t)
    IN  {[kpi_id |-> p[1].kpi_id, date_id |-> p[1].date_id, dept_id |-> p[1].dept_id,
          actual_value |-> p[1].actual_value, target_value |-> p[1].target_value,
          target_direction |-> p[2].target_direction] :
            p \in {q \in JoinDimKpi(facts, kpis) :
                     /\ q[1].date_id >= week_ago_id
                     /\ DeptClause(dept_id, q[1])}}

RECURSIVE OrderByDateId(_)
\* ORDER BY k.date_id: every order of the rows the query can return, rows
\* of one date in any order
OrderByDateId(rows) ==
    IF rows = {} THEN {<< >>}
    ELSE UNION {{<<r>> \o s : s \in OrderByDateId(rows \ {r})} :
                   r \in {x \in rows : \A q \in rows : x.date_id <= q.date_id}}

RECURSIVE OrderByDateIdDesc(_)
\* ORDER BY k.date_id DESC
OrderByDateIdDesc(rows) ==
    IF rows = {} THEN {<< >>}
    ELSE UNION {{<<r>> \o s : s \in OrderByDateIdDesc(rows \ {r})} :
                   r \in {x \in rows : \A q \in rows : q.date_id <= x.date_id}}

\* iloc[0] of rows that come in no order
LatestRowsUnordered(kpi_data) ==
    kpi_data

\* the rows kpi_data.iloc[0] can be under ORDER BY k.date_id DESC
LatestRows(kpi_data) ==
    {s[1] : s \in OrderByDateIdDesc(kpi_data)}

\* every way to take one latest row for each of the KPI ids
RECURSIVE LatestChoices(_, _)
LatestChoices(kpi_ids, kpi_df) ==
    IF kpi_ids = {} THEN {{}}
    ELSE LET k == CHOOSE x \in kpi_ids : TRUE
         IN  {c \cup {r} :
                 c \in LatestChoices(kpi_ids \ {k}, kpi_df),
                 r \in LatestRows({q \in kpi_df : q.kpi_id = k})}

\* the insights appended for the chosen latest rows (lines 531-549)
InsightsOf(latest) ==
    {[kpi_id |-> r.kpi_id,
      type |-> InsightType(r.actual_value, r.target_value, r.target_direction),
      severity |-> IF InsightType(r.actual_value, r.target_value,
                                  r.target_direction) = "success"
                   THEN "low" ELSE "high",
      topic |-> "target"] :
        r \in {q \in latest :
                 InsightType(q.actual_value, q.target_value,
                             q.target_direction) # "none"}}

\* generate_insights(dept_id): the lists it can return on these tables,
\* each with the rows it took as latest
generate_insights(facts, kpis, t, dept_id) ==
    LET kpi_df == KpiDf(facts, kpis, t, dept_id)
    IN  IF kpi_df = {} THEN {[insights |-> {}, latest |-> {}]}
        ELSE {[insights |-> InsightsOf(c), latest |-> c] :
                 c \in LatestChoices({r.kpi_id : r \in kpi_df}, kpi_df)}

\* render_dept_dashboard: kpi_df, the facts of the department of the last
\* 30 days that have a KPI definition and a dim_date row
DeptDashboardRows(dept_id) ==
    LET thirty_days_ago == to_date_id(AddDays(today, 0 - 30))
    IN  {f \in fact_kpi_data :
            /\ f.dept_id = dept_id
            /\ f.date_id >= thirty_days_ago
            /\ \E d \in dim_kpi : d.kpi_id = f.kpi_id
            /\ \E r \in dim_date : r.date_id = f.date_id}

\* the rows latest = kpi_data.iloc[-1] can be under ORDER BY k.date_id
DashboardLatestRows(kpi_data) ==
    {s[Len(s)] : s \in OrderByDateId(kpi_data)}

RECURSIVE DashboardChoices(_, _)
\* every way to take one latest row for each of the KPI cards
DashboardChoices(kpi_ids, kpi_df) ==
    IF kpi_ids = {} THEN {{}}
    ELSE LET k == CHOOSE x \in kpi_ids : TRUE
         IN  {c \cup {r} :
                 c \in DashboardChoices(kpi_ids \ {k}, kpi_df),
                 r \in DashboardLatestRows({q \in kpi_df : q.kpi_id = k})}

\* render_dept_dashboard: the latest rows of the cards it can draw
DashboardLatest(dept_id) ==
    LET kpi_df == DeptDashboardRows(dept_id)
    IN  DashboardChoices({r.kpi_id : r \in kpi_df}, kpi_df)

(***************************************************************************)
(* Specification SpecInsights: generate_insights on drawn tables.          *)
(***************************************************************************)
InsightsToday == MkDate(2024, 3, 3)

\* a fact of fact_kpi_data, dated back days before InsightsToday
InsightFact(kpi_id, dept_id, back, actual) ==
    [record_id |-> <<kpi_id, back>>,
     date_id |-> to_date_id(AddDays(InsightsToday, 0 - back)),
     dept_id |-> dept_id, kpi_id |-> kpi_id,
     actual_value |-> actual, target_value |-> 100]

\* days back of the facts of MDS_K1 and of SGS_K2 (8 is outside the window
\* of generate_insights)
BackK1 == {0, 1, 7, 8}
BackK2 == {0, 1}
\* actual values of the facts
ActualK1 == {0, 79, 100}
ActualK2 == {0, 151}

\* days back of an old fact of MDS_K1, outside the window of the dashboard
BackOld == 31

\* every table with at most one fact per KPI and day
InsightFactTables ==
    UNION {{{InsightFact("MDS_K1", "MDS", b, f[b]) : b \in D1}
                \cup {InsightFact("SGS_K2", "SGS", b, g[b]) : b \in D2}
                \cup old :
                    f \in [D1 -> ActualK1], g \in [D2 -> ActualK2],
                    old \in {{}, {InsightFact("MDS_K1", "MDS", BackOld, 100)}}} :
              D1 \in SUBSET BackK1, D2 \in SUBSET BackK2}

InsightKpiTables ==
    {{}, {d \in SeedDimKpi : d.kpi_id = "MDS_K1"},
     {d \in SeedDimKpi : d.kpi_id \in {"MDS_K1", "SGS_K2"}}}

\* a row of fact_work_item
WorkItem(work_id, dept_id, status, due_back, risk_level) ==
    [work_id |-> work_id, dept_id |-> dept_id, status |-> status,
     due_date_id |-> to_date_id(AddDays(InsightsToday, 0 - due_back)),
     risk_level |-> risk_level]

InsightWorkTables ==
    {{}, {WorkItem("W1", "MDS", "In Progress", 2, "High")},
     {WorkItem("W2", "MDS", "Done", 2, "High")}}

InsightDepts == {None, "MDS", "IT"}

\* dim_date from the day of the oldest fact to today
InsightDimDate ==
    ensure_dim_date({}, AddDays(InsightsToday, 0 - BackOld), InsightsToday)

InitInsights ==
    /\ pc = "input"
    /\ args \in [dept_id : InsightDepts]
    /\ ret = [insights |-> {}, latest |-> {}]
    /\ today = InsightsToday
    /\ db_ready = TRUE
    /\ dim_date = InsightDimDate
    /\ fact_kpi_data \in InsightFactTables
    /\ seed_count = 0
    /\ dim_department = {}
    /\ dim_kpi \in InsightKpiTables
    /\ fact_work_item \in InsightWorkTables
    /\ dim_user = {}
    /\ dim_user_schema = CreatedDimUser
    /\ auth = NoSession
    /\ workspace_categories = {}
    /\ workspace_datasets = {}
    /\ workspace_data = {}
    /\ sessions = NoSessions

\* generate_insights(dept_id)
CallGenerateInsights ==
    /\ pc = "input"
    /\ pc' = "generate_insights"
    /\ \E result \in generate_insights(fact_kpi_data, dim_kpi, today, args.dept_id) :
           ret' = result
    /\ UNCHANGED <<args, DbVars>>

\* render_dept_dashboard(dept_id, ...): the rows of its KPI cards
CallDeptDashboard ==
    /\ pc = "input"
    /\ args.dept_id # None
    /\ pc' = "render_dept_dashboard"
    /\ \E latest \in DashboardLatest(args.dept_id) :
           ret' = [insights |-> {}, latest |-> latest]
    /\ UNCHANGED <<args, DbVars>>

NextInsights == CallGenerateInsights \/ CallDeptDashboard

SpecInsights == InitInsights /\ [][NextInsights]_vars

(***************************************************************************)
(* Claims on generate_insights (SpecInsights)                              *)
(***************************************************************************)
\* the facts of the requested scope inside the lookback window whose KPI is
\* defined
FactsInScope ==
    {f \in fact_kpi_data :
        /\ f.date_id >= DateIdOf(AddDays(today, 0 - 7))
        /\ args.dept_id # None => f.dept_id = args.dept_id
        /\ \E d \in dim_kpi : d.kpi_id = f.kpi_id}

DirectionOf(kpi_id) ==
    (CHOOSE d \in dim_kpi : d.kpi_id = kpi_id).target_direction

\* C13: for each KPI id with at least one fact in the lookback window and a
\* non-zero target, generate_insights emits exactly one insight of severity
\* low when the latest fact is on-target, exactly one of severity high when
\* it is in breach, and none when it is at-risk, an actual of 0 included.
C13_OneInsightPerExtreme ==
    pc = "generate_insights" =>
        \A f \in FactsInScope :
            (\A g \in FactsInScope : g.kpi_id = f.kpi_id => g.date_id <= f.date_id)
                /\ f.target_value # 0 =>
            LET about == {i \in ret.insights : i.kpi_id = f.kpi_id}
                tier == DirectionTier(f.actual_value, f.target_value,
                                      DirectionOf(f.kpi_id))
            IN  CASE tier = "on_target" ->
                        /\ Cardinality(about) = 1
                        /\ \A i \in about : i.type = "success" /\ i.severity = "low"
                  [] tier = "breach" ->
                        /\ Cardinality(about) = 1
                        /\ \A i \in about : i.type = "danger" /\ i.severity = "high"
                  [] OTHER -> about = {}

\* the actual values of a set of facts in the order of their dates
RECURSIVE ValueSeries(_)
ValueSeries(facts) ==
    IF facts = {} THEN << >>
    ELSE LET first == CHOOSE f \in facts : \A g \in facts : f.date_id <= g.date_id
         IN  <<first.actual_value>> \o ValueSeries(facts \ {first})

\* |change| > 10 for the change num/den of a trend
ChangeOver10(trend) ==
    ~trend.nan /\ (trend.num > 10 * trend.den \/ 0 - trend.num > 10 * trend.den)

\* C14: for each KPI with at least 3 facts in the lookback window,
\* generate_insights classifies the trend of the KPI's value series and emits
\* a trend insight iff |change| > 10; with fewer than 3 facts or
\* |change| <= 10 it emits no trend insight.
C14_TrendInsight ==
    pc = "generate_insights" =>
        \A k \in {f.kpi_id : f \in FactsInScope} :
            LET facts == {f \in FactsInScope : f.kpi_id = k}
                trend == calculate_trend(ValueSeries(facts), DefaultPeriods)
                emitted == \E i \in ret.insights : i.kpi_id = k /\ i.topic = "trend"
            IN  emitted <=> (Cardinality(facts) >= 3 /\ ChangeOver10(trend))

\* statuses after which a work item is no longer open
TerminalStatuses == {"Done", "Cancelled", "Closed"}

\* the open work items of the requested scope
OpenWorkItems ==
    {w \in fact_work_item :
        /\ w.status \notin TerminalStatuses
        /\ args.dept_id # None => w.dept_id = args.dept_id}

\* C15: generate_insights emits one aggregate "overdue" insight iff at least
\* one work item in scope is past its due date and not terminal, and one
\* aggregate "high risk" insight iff at least one non-terminal work item in
\* scope has risk level High.
C15_WorkItemInsights ==
    pc = "generate_insights" =>
        /\ (\E i \in ret.insights : i.topic = "overdue")
               <=> (\E w \in OpenWorkItems : w.due_date_id < DateIdOf(today))
        /\ (\E i \in ret.insights : i.topic = "high_risk")
               <=> (\E w \in OpenWorkItems : w.risk_level = "High")

\* C16: generate_insights returns the empty list whenever its input is empty
\* at some stage: no KPI facts, no KPI definitions, no fact inside the
\* lookback window, or no fact of the requested department.
C16_EmptyInputEmptyList ==
    LET empty ==
            \/ fact_kpi_data = {}
            \/ dim_kpi = {}
            \/ \A f \in fact_kpi_data : f.date_id < DateIdOf(AddDays(today, 0 - 7))
            \/ args.dept_id # None
                   /\ \A f \in fact_kpi_data : f.dept_id # args.dept_id
    IN  pc = "generate_insights" /\ empty => ret.insights = {}

\* facts and KPI definitions exist, an on-target fact lies just outside the
\* window and nothing inside it: the list is empty
C16_Witness ==
    /\ pc = "generate_insights"
    /\ args.dept_id = None
    /\ dim_kpi # {}
    /\ fact_kpi_data = {InsightFact("MDS_K1", "MDS", 8, 100)}
    /\ ret.insights = {}

(***************************************************************************)
(* Authentication and user administration                                  *)
(***************************************************************************)
\* the rows of a username, enabled or not
UserRowsAnyState(users, username) ==
    {u \in users : u.username = username}

\* SELECT * FROM dim_user WHERE username = ? AND is_enabled = 1
UserRows(users, username) ==
    {u \in users : u.username = username /\ u.is_enabled = 1}

\* login(username, password) when df.iloc[0] is row: the value returned and
\* the session it leaves
LoginWith(row, password, session) ==
    IF row.password_hash # sha256(password)
    THEN [ok |-> FALSE, auth |-> session]
    ELSE [ok |-> TRUE,
          auth |-> [logged_in |-> TRUE, username |-> row.username,
                    role |-> row.role, dept_id |-> row.dept_id]]

\* login(username, password): the outcomes it can have on this table
login(users, username, password, session) ==
    LET df == UserRows(users, username)
    IN  IF df = {} THEN {[ok |-> FALSE, auth |-> session]}
        ELSE {LoginWith(row, password, session) : row \in df}

\* INSERT INTO dim_user VALUES (?, ?, ?, ?, ?, 1) whatever the columns of
\* the table are
InsertDimUserAnyColumns(users, schema, row) ==
    IF schema.primary_key /\ \E u \in users : u.username = row.username
    THEN [ok |-> FALSE, error |-> "IntegrityError", users |-> users]
    ELSE [ok |-> TRUE, error |-> "", users |-> users \cup {row}]

\* exec_sql("INSERT INTO dim_user VALUES (?, ?, ?, ?, ?, 1)", ...): six
\* values need a table of six columns, and a key refuses a second row of
\* the same username; the exception leaves the table as it was
InsertDimUser(users, schema, row) ==
    IF Len(schema.columns) # 6
    THEN [ok |-> FALSE, error |-> "OperationalError", users |-> users]
    ELSE IF schema.primary_key /\ \E u \in users : u.username = row.username
    THEN [ok |-> FALSE, error |-> "IntegrityError", users |-> users]
    ELSE [ok |-> TRUE, error |-> "", users |-> users \cup {row}]

\* what is typed into the login form
LoginUsernames == {"admin", "mds_head", "sgs_head", "nobody"}
LoginPasswords == {"demo123", "wrong"}

\* the Login button of the sidebar, shown to a logged-out session when
\* dim_user has rows
Login ==
    /\ db_ready
    /\ ~auth.logged_in
    /\ dim_user # {}
    /\ \E username \in LoginUsernames, password \in LoginPasswords :
        \E result \in login(dim_user, username, password, auth) :
            /\ auth' = result.auth
            /\ args' = [username |-> username, password |-> password]
            /\ ret' = [ok |-> result.ok, before |-> auth]
    /\ pc' = "login"
    /\ UNCHANGED <<today, db_ready, dim_date, fact_kpi_data, seed_count>>
    /\ UNCHANGED <<dim_department, dim_kpi, fact_work_item, dim_user,
                   dim_user_schema, workspace_categories, workspace_datasets,
                   workspace_data, sessions>>

\* the Logout button of the sidebar
Logout ==
    /\ db_ready
    /\ auth.logged_in
    /\ auth' = NoSession
    /\ pc' = "logout"
    /\ UNCHANGED <<args, ret, today, db_ready, dim_date, fact_kpi_data, seed_count>>
    /\ UNCHANGED <<dim_department, dim_kpi, fact_work_item, dim_user,
                   dim_user_schema, workspace_categories, workspace_datasets,
                   workspace_data, sessions>>

\* what is entered into the Add User form
NewUsernames == {"", "staff1", "admin"}
NewPasswords == {"pw"}
NewRoles == {"Executive", "DeptHead", "Staff"}
NewDepts == {None, "MDS"}

\* the Add button of the Administration page, a page offered to the Admin
\* role only
AddUser ==
    /\ db_ready
    /\ auth.logged_in
    /\ auth.role = "Admin"
    /\ \E new_user \in NewUsernames, new_pass \in NewPasswords,
          new_role \in NewRoles, new_dept \in NewDepts :
        LET row == [username |-> new_user, password_hash |-> sha256(new_pass),
                    role |-> new_role, dept_id |-> new_dept, is_enabled |-> 1]
            done == IF new_user # "" /\ new_pass # ""
                    THEN InsertDimUser(dim_user, dim_user_schema, row)
                    ELSE [ok |-> FALSE, error |-> "", users |-> dim_user]
        IN  /\ dim_user' = done.users
            /\ args' = [new_user |-> new_user, new_pass |-> new_pass,
                        new_role |-> new_role, new_dept |-> new_dept]
            /\ ret' = [ok |-> done.ok, error |-> done.error]
    /\ pc' = "add_user"
    /\ UNCHANGED <<today, db_ready, dim_date, fact_kpi_data, seed_count>>
    /\ UNCHANGED <<dim_department, dim_kpi, fact_work_item, dim_user_schema,
                   auth, workspace_categories, workspace_datasets, workspace_data,
                   sessions>>

\* the Seed Demo Data button of the sidebar, shown to a logged-out session
\* when dim_user has no rows
SidebarSeed ==
    /\ ~auth.logged_in
    /\ dim_user = {}
    /\ SeedDemoData

\* the Seed Demo Data button of the Administration page
AdminSeed ==
    /\ auth.logged_in
    /\ auth.role = "Admin"
    /\ SeedDemoData

(***************************************************************************)
(* Pages of a logged-in session                                            *)
(***************************************************************************)
\* the dept_id values of a set of rows
DeptsOf(rows) == {r.dept_id : r \in rows}

\* render_report_generator: the facts behind report_df for the default date
\* range, the last 30 days
ReportRows(dept_filter) ==
    LET date_from == to_date_id(AddDays(today, 0 - 30))
        date_to == to_date_id(today)
    IN  {f \in fact_kpi_data :
            /\ f.date_id >= date_from /\ f.date_id <= date_to
            /\ dept_filter # "All" => f.dept_id = dept_filter
            /\ f.dept_id \in dim_department
            /\ \E d \in dim_kpi : d.kpi_id = f.kpi_id}

\* the departments of the navigation's dashboard pages
DashboardPages == {"MDS", "SGS", "BMS", "IT"}

\* the Department choices of the report generator the model takes
ReportFilters == {"All", "MDS", "SGS"}

\* what a page leaves untouched: every table and the session
PageFrame ==
    /\ UNCHANGED <<today, db_ready, dim_date, fact_kpi_data, seed_count>>
    /\ UNCHANGED AppVars

\* one of the four department dashboards picked in the navigation, which
\* offers them to every logged-in session
ViewDeptDashboard ==
    /\ db_ready
    /\ auth.logged_in
    /\ \E dept_id \in DashboardPages :
        /\ args' = [dept_id |-> dept_id]
        /\ ret' = [depts |-> DeptsOf(DeptDashboardRows(dept_id))
                               \cup DeptsOf(KpiDf(fact_kpi_data, dim_kpi, today, dept_id))]
    /\ pc' = "render_dept_dashboard"
    /\ PageFrame

\* the Executive Dashboard page: one card per row of dim_department and
\* the insights of generate_insights()
ViewExecutiveDashboard ==
    /\ db_ready
    /\ auth.logged_in
    /\ args' = [dept_id |-> None]
    /\ ret' = [depts |-> dim_department
                           \cup DeptsOf(KpiDf(fact_kpi_data, dim_kpi, today, None))]
    /\ pc' = "render_executive_dashboard"
    /\ PageFrame

\* the Generate button of the Report Generator page
GenerateReport ==
    /\ db_ready
    /\ auth.logged_in
    /\ \E dept_filter \in ReportFilters :
        /\ args' = [dept_filter |-> dept_filter]
        /\ ret' = [depts |-> DeptsOf(ReportRows(dept_filter))]
    /\ pc' = "render_report_generator"
    /\ PageFrame

\* the Delete button of a dataset card in the Dataset Catalog of the Data
\* Workspace, a page offered to every logged-in session
DeleteDataset ==
    /\ db_ready
    /\ auth.logged_in
    /\ \E ds \in workspace_datasets :
        /\ workspace_data' = {r \in workspace_data : r.dataset_id # ds.dataset_id}
        /\ workspace_datasets' =
               {r \in workspace_datasets : r.dataset_id # ds.dataset_id}
        /\ args' = [dataset_id |-> ds.dataset_id]
    /\ pc' = "delete_dataset"
    /\ UNCHANGED <<ret, today, db_ready, dim_date, fact_kpi_data, seed_count>>
    /\ UNCHANGED <<dim_department, dim_kpi, fact_work_item, dim_user,
                   dim_user_schema, auth, workspace_categories, sessions>>

\* the categories whose delete button the model presses
DeletableCategories == {"CAT_REGION", "CAT_PERIOD"}

\* the delete button of a category in the Category Manager of the Data
\* Workspace
DeleteCategory ==
    /\ db_ready
    /\ auth.logged_in
    /\ \E category_id \in workspace_categories \cap DeletableCategories :
        /\ workspace_categories' = workspace_categories \ {category_id}
        /\ args' = [category_id |-> category_id]
    /\ pc' = "delete_category"
    /\ UNCHANGED <<ret, today, db_ready, dim_date, fact_kpi_data, seed_count>>
    /\ UNCHANGED <<dim_department, dim_kpi, fact_work_item, dim_user,
                   dim_user_schema, auth, workspace_datasets, workspace_data,
                   sessions>>

(***************************************************************************)
(* Specification SpecApp: one browser session on the application.          *)
(***************************************************************************)
NextApp ==
    \/ InitDb
    \/ SidebarSeed
    \/ AdminSeed
    \/ Login
    \/ Logout
    \/ AddUser
    \/ ViewDeptDashboard
    \/ ViewExecutiveDashboard
    \/ GenerateReport
    \/ DeleteDataset
    \/ DeleteCategory

\* the day of the session
AppToday == MkDate(2024, 2, 27)

InitApp == Init /\ today = AppToday

SpecApp == InitApp /\ [][NextApp]_vars

(***************************************************************************)
(* Claims on users, sessions and stored rows (SpecApp)                     *)
(***************************************************************************)
\* C17: after any sequence of seed and Add User operations every dim_user
\* row whose role is neither Admin nor Executive has a department scope
\* that is not null.
C17_ScopedRolesHaveDept ==
    \A u \in dim_user :
        u.role \notin {"Admin", "Executive"} => u.dept_id # None

\* the Admin has pressed Add for a Staff user without a department, after a
\* seed
C17_Witness ==
    /\ pc = "add_user"
    /\ seed_count >= 1
    /\ args.new_user = "staff1" /\ args.new_pass = "pw"
    /\ args.new_role = "Staff" /\ args.new_dept = None
    /\ \E u \in dim_user : u.role = "DeptHead"

\* C18: in a session of a department-scoped role (DeptHead, Staff) every
\* page shows rows of the session's own department only.
C18_OwnDepartmentOnly ==
    pc \in {"render_dept_dashboard", "render_executive_dashboard",
            "render_report_generator"}
        /\ auth.logged_in /\ auth.role \in {"DeptHead", "Staff"}
        => ret.depts \subseteq {auth.dept_id}

\* the tables of the database
StoredTables ==
    <<dim_date, fact_kpi_data, dim_department, dim_kpi, fact_work_item, dim_user,
      workspace_categories, workspace_datasets, workspace_data>>

\* C20: a step removes rows of a table only when it is the reset an Admin
\* session asks for, which replaces whole tables; no step of another session
\* and no other step deletes rows.
C20_NoRowRemoval ==
    [][(\E i \in 1..Len(StoredTables) : ~(StoredTables[i] \subseteq StoredTables'[i]))
          => pc' = "seed_demo_data" /\ auth.logged_in /\ auth.role = "Admin"]_vars

(***************************************************************************)
(* Specification SpecLogin: the login form on drawn dim_user tables, with  *)
(* username as the key of the table.                                       *)
(***************************************************************************)
\* the rows a table can hold for one account: none, or one row with the
\* digest of one of the passwords, enabled or disabled
AccountRows(username, role, dept_id) ==
    {{}} \cup
    {{[username |-> username, password_hash |-> sha256(p), role |-> role,
       dept_id |-> dept_id, is_enabled |-> e]} :
        p \in LoginPasswords, e \in {0, 1}}

LoginTables ==
    {a \cup m : a \in AccountRows("admin", "Admin", None),
                m \in AccountRows("mds_head", "DeptHead", "MDS")}

InitLogin ==
    /\ pc = "input"
    /\ args = [username |-> "", password |-> ""]
    /\ ret = [ok |-> FALSE, before |-> NoSession]
    /\ today = Epoch
    /\ db_ready = TRUE
    /\ dim_date = {}
    /\ fact_kpi_data = {}
    /\ seed_count = 0
    /\ dim_department = {}
    /\ dim_kpi = {}
    /\ fact_work_item = {}
    /\ dim_user \in LoginTables
    /\ dim_user_schema = CreatedDimUser
    /\ auth = NoSession
    /\ workspace_categories = {}
    /\ workspace_datasets = {}
    /\ workspace_data = {}
    /\ sessions = NoSessions

NextLogin == Login \/ Logout

SpecLogin == InitLogin /\ [][NextLogin]_vars

(***************************************************************************)
(* Claims on login (SpecLogin)                                             *)
(***************************************************************************)
\* C19: login(username, password) returns True and sets the session to
\* logged-in with the row's username, role and dept_id iff dim_user holds an
\* enabled row of that username whose password_hash is the SHA-256 digest of
\* the password; otherwise it returns False and leaves the session as it was.
C19_LoginIffEnabledMatch ==
    pc = "login" =>
        LET matching ==
                {u \in dim_user :
                    /\ u.username = args.username
                    /\ u.is_enabled = 1
                    /\ u.password_hash = sha256(args.password)}
        IN  /\ ret.ok <=> matching # {}
            /\ ret.ok =>
                   \E u \in matching :
                       auth = [logged_in |-> TRUE, username |-> u.username,
                               role |-> u.role, dept_id |-> u.dept_id]
            /\ ~ret.ok => auth = ret.before

\* a disabled account is refused although its password is right
C19_Witness ==
    /\ pc = "login"
    /\ ~ret.ok
    /\ auth = NoSession
    /\ \E u \in dim_user :
           /\ u.username = args.username
           /\ u.is_enabled = 0
           /\ u.password_hash = sha256(args.password)

(***************************************************************************)
(* Claims on the stored facts (SpecApp)                                    *)
(***************************************************************************)
\* C21: once a fact_kpi_data row exists no later operation, seed_demo_data
\* included, removes or changes it: the set of KPI facts only grows.
C21_FactsOnlyGrow ==
    [][fact_kpi_data \subseteq fact_kpi_data']_vars

(***************************************************************************)
(* Grouping and aggregation of a dataset (pandas groupby / agg)            *)
(*                                                                         *)
(* A dataset is the sequence of its rows, a row the record of its group    *)
(* field cat and its numeric field v. NaN is the missing group value; a    *)
(* number is the record of its value, or nan when it is missing; an        *)
(* aggregate is the pair num/den, or nan when it has no value.             *)
(***************************************************************************)
NaN == "NaN"

Number(num, den) == [nan |-> FALSE, num |-> num, den |-> den]
NoNumber == [nan |-> TRUE, num |-> 0, den |-> 1]

\* the values of v in the rows of one group, missing ones taken as 0
GroupValuesNaNAsZero(rows, key) ==
    LET pick(r) == r.cat = key
        zero(r) == IF r.v.nan THEN 0 ELSE r.v.val
        sel == SelectSeq(rows, pick)
    IN  [i \in 1..Len(sel) |-> zero(sel[i])]

\* the values of v an aggregation of one group works on: pandas skips the
\* missing ones
GroupValues(rows, key) ==
    LET pick(r) == r.cat = key /\ ~r.v.nan
        sel == SelectSeq(rows, pick)
    IN  [i \in 1..Len(sel) |-> sel[i].v.val]

RECURSIVE MinSeq(_)
MinSeq(s) == IF Len(s) = 1 THEN s[1] ELSE Min2(Head(s), MinSeq(Tail(s)))

RECURSIVE MaxSeq(_)
MaxSeq(s) == IF Len(s) = 1 THEN s[1] ELSE Max2(Head(s), MaxSeq(Tail(s)))

\* Series.agg(agg_func) on the values of one group
Aggregate(values, agg_func) ==
    CASE agg_func = "sum" -> Number(SumSeq(values), 1)
      [] agg_func = "count" -> Number(Len(values), 1)
      [] agg_func = "mean" ->
            IF Len(values) = 0 THEN NoNumber ELSE Number(SumSeq(values), Len(values))
      [] agg_func = "min" ->
            IF Len(values) = 0 THEN NoNumber ELSE Number(MinSeq(values), 1)
      [] OTHER ->
            IF Len(values) = 0 THEN NoNumber ELSE Number(MaxSeq(values), 1)

\* df.groupby(group_col)[agg_col].agg(agg_func).reset_index(): one row for
\* each key the rows hold, rows with a missing key left out
GroupAgg(rows, agg_func) ==
    {[cat |-> key, value |-> Aggregate(GroupValues(rows, key), agg_func)] :
        key \in {rows[i].cat : i \in 1..Len(rows)} \ {NaN}}

(***************************************************************************)
(* Specification SpecGroup: grouping of drawn datasets.                    *)
(***************************************************************************)
MaxRows == 3

GroupCats == {"A", "B", NaN}
GroupNumbers == {5, 10, 20}
AggFuncs == {"sum", "mean", "count", "min", "max"}

\* a cell of v: a number or missing
Cell(n) == [nan |-> FALSE, val |-> n]
Missing == [nan |-> TRUE, val |-> 0]

GroupRows ==
    [cat : GroupCats,
     v : {Cell(n) : n \in GroupNumbers} \cup {Missing}]

InitGroup ==
    /\ pc = "input"
    /\ args \in [rows : UNION {[1..n -> GroupRows] : n \in 0..MaxRows},
                 agg_func : AggFuncs]
    /\ ret = {}
    /\ IdleDb

\* the grouped table of the Data Explorer, shown for a dataset with rows
CallGroupAgg ==
    /\ pc = "input"
    /\ Len(args.rows) > 0
    /\ pc' = "groupby"
    /\ ret' = GroupAgg(args.rows, args.agg_func)
    /\ UNCHANGED <<args, DbVars>>

NextGroup == CallGroupAgg

SpecGroup == InitGroup /\ [][NextGroup]_vars

(***************************************************************************)
(* Claims on grouping (SpecGroup)                                          *)
(***************************************************************************)
\* the positions of the rows of a group that have a value
Valued(key) ==
    {i \in 1..Len(args.rows) : args.rows[i].cat = key /\ ~args.rows[i].v.nan}

RECURSIVE SumAt(_)
SumAt(positions) ==
    IF positions = {} THEN 0
    ELSE LET i == CHOOSE x \in positions : TRUE
         IN  args.rows[i].v.val + SumAt(positions \ {i})

\* C22: grouping by a field and aggregating a numeric field yields exactly
\* one row per distinct group value that has at least one row and none for
\* any other value; its value is the aggregate over the non-null values of
\* the group only, nulls being left out and not counted as zero; the rows
\* (A,10), (A,20), (B,5) summed give A: 30 and B: 5.
C22_GroupAggregate ==
    pc = "groupby" =>
        /\ \A key \in {"A", "B"} :
               LET cells == {r \in ret : r.cat = key}
                   present == \E i \in 1..Len(args.rows) : args.rows[i].cat = key
                   n == Cardinality(Valued(key))
                   total == SumAt(Valued(key))
               IN  /\ Cardinality(cells) = IF present THEN 1 ELSE 0
                   /\ \A r \in cells :
                       CASE args.agg_func = "sum" ->
                                ~r.value.nan /\ r.value.num = total * r.value.den
                         [] args.agg_func = "count" ->
                                ~r.value.nan /\ r.value.num = n * r.value.den
                         [] args.agg_func = "mean" ->
                                IF n = 0 THEN r.value.nan
                                ELSE ~r.value.nan /\ r.value.num * n = total * r.value.den
                         [] args.agg_func = "min" ->
                                IF n = 0 THEN r.value.nan
                                ELSE /\ ~r.value.nan
                                     /\ \E i \in Valued(key) :
                                            r.value.num = args.rows[i].v.val * r.value.den
                                     /\ \A i \in Valued(key) :
                                            r.value.num <= args.rows[i].v.val * r.value.den
                         [] OTHER ->
                                IF n = 0 THEN r.value.nan
                                ELSE /\ ~r.value.nan
                                     /\ \E i \in Valued(key) :
                                            r.value.num = args.rows[i].v.val * r.value.den
                                     /\ \A i \in Valued(key) :
                                            r.value.num >= args.rows[i].v.val * r.value.den
        /\ \A r \in ret : r.cat \in {"A", "B"}
        /\ args.rows = <<[cat |-> "A", v |-> Cell(10)], [cat |-> "A", v |-> Cell(20)],
                         [cat |-> "B", v |-> Cell(5)]>> /\ args.agg_func = "sum"
               => ret = {[cat |-> "A", value |-> Number(30, 1)],
                         [cat |-> "B", value |-> Number(5, 1)]}

\* a group with a missing value among its values, averaged
C22_Witness ==
    /\ pc = "groupby"
    /\ args.agg_func = "mean"
    /\ args.rows = <<[cat |-> "A", v |-> Cell(10)], [cat |-> "A", v |-> Missing],
                     [cat |-> NaN, v |-> Cell(5)]>>
    /\ ret = {[cat |-> "A", value |-> Number(10, 1)]}

(***************************************************************************)
(* Concurrent browser sessions                                             *)
(*                                                                         *)
(* Streamlit runs the script once for every event of a session, each       *)
(* session in a thread of its own on the one SQLite file.  A button is     *)
(* pressed on the page the session's last run has drawn, and st.button     *)
(* returns True in the run the press starts only when that run draws the   *)
(* button again.  Every exec_sql, replace_table and append_table opens a   *)
(* connection and commits by itself, so a handler of several statements    *)
(* is several steps that the steps of other sessions come between.         *)
(* sessions[s] holds the session state (auth), the page drawn last         *)
(* (shown), the statement the running script is at (op) and its locals     *)
(* (run, dataset_id, n_rows), and the number of uploads saved (saves).     *)
(* What a logged-in session is shown depends on its own state alone, so    *)
(* its pages are one value of shown.                                       *)
(***************************************************************************)
Sessions == {"s1", "s2"}

\* the seed runs and the uploads of all sessions the model follows
MaxSessionSeeds == 2
MaxSaves == 1

\* len(df) of the uploads, the outcome of the random module in a seed run
\* and what is typed into the login form
UploadLengths == {1}
SessionDraws == {0}
SessionLoginInputs ==
    {<<"admin", "demo123">>, <<"mds_head", "demo123">>, <<"nobody", "wrong">>}

IdleSession ==
    [auth |-> NoSession, shown |-> "none", op |-> "idle", run |-> 0,
     dataset_id |-> "", n_rows |-> 0, saves |-> 0]

\* uid("DS"): an identifier no other call returns
DatasetUid(s, k) ==
    IF s = "s1" THEN <<"DS_a1", "DS_a2", "DS_a3">>[k]
    ELSE <<"DS_b1", "DS_b2", "DS_b3">>[k]

\* uid("DATA") of the rows of an upload: the number of the upload, apart
\* from the numbers of the seed runs, and the index of the row
DataUid(s, k, i) == <<(IF s = "s1" THEN 10 ELSE 20) + k, i>>

\* the Seed Demo Data button of the sidebar is drawn whatever dim_user holds
SidebarSeedRenderedStale(a, users) ==
    ~a.logged_in

\* lines 1602-1607: the Seed Demo Data button of the sidebar is drawn
SidebarSeedRendered(a, users) ==
    ~a.logged_in /\ users = {}

\* lines 1642-1643 and 1667-1668: the Administration page, with its Seed
\* Demo Data button, is among the pages of the navigation
AdminPageRendered(a) ==
    a.logged_in /\ a.role = "Admin"

\* what a run of the script draws: the seed button or the login form for a
\* session that is not logged in, else the navigation and its pages, which
\* depend on the session alone
Render(a, users) ==
    IF SidebarSeedRendered(a, users) THEN "seed_button"
    ELSE IF ~a.logged_in THEN "login_form"
    ELSE "navigation"

\* init_db() at the top of every run of the script
RunInitDb ==
    /\ db_ready' = TRUE
    /\ dim_user_schema' = IF db_ready THEN dim_user_schema ELSE CreatedDimUser

\* what no step of a session touches
SessionFrame == UNCHANGED <<ret, today, fact_work_item, auth>>

\* the tables seed_demo_data writes before workspace_datasets
SeedFirstTables ==
    <<dim_date, fact_kpi_data, dim_department, dim_kpi, workspace_categories>>

\* a run that presses nothing and draws the page again
Redraw(s) ==
    /\ sessions' = [sessions EXCEPT
                      ![s].shown = Render(sessions[s].auth, dim_user)]
    /\ UNCHANGED <<seed_count, SeedFirstTables, workspace_datasets,
                   workspace_data, dim_user>>

\* a page load, a refresh or a pick in the navigation
Visit(s) ==
    /\ sessions[s].op = "idle"
    /\ Redraw(s)
    /\ RunInitDb
    /\ pc' = "visit"
    /\ args' = [session |-> s]
    /\ SessionFrame

\* seed_demo_data() up to replace_table("workspace_datasets", ...),
\* lines 327-424
SeedStart(s) ==
    /\ \E draw \in SessionDraws :
        /\ dim_date' = ensure_dim_date(dim_date, SeedDimStart(today), SeedDimEnd(today))
        /\ fact_kpi_data' = SeedKpiData(today, seed_count + 1, draw)
    /\ seed_count' = seed_count + 1
    /\ dim_department' = SeedDepartments
    /\ dim_kpi' = SeedDimKpi
    /\ workspace_categories' = SeedCategories
    /\ workspace_datasets' = SeedDatasets
    /\ sessions' = [sessions EXCEPT ![s].op = "seed_data",
                                    ![s].run = seed_count + 1]
    /\ UNCHANGED <<workspace_data, dim_user>>

\* the Seed Demo Data button of the sidebar is pressed
ClickSidebarSeed(s) ==
    /\ sessions[s].op = "idle"
    /\ sessions[s].shown = "seed_button"
    /\ seed_count < MaxSessionSeeds
    /\ IF SidebarSeedRendered(sessions[s].auth, dim_user)
       THEN SeedStart(s)
       ELSE Redraw(s)
    /\ RunInitDb
    /\ pc' = "click_sidebar_seed"
    /\ args' = [session |-> s]
    /\ SessionFrame

\* the Seed Demo Data button of the Administration page is pressed
ClickAdminSeed(s) ==
    /\ sessions[s].op = "idle"
    /\ sessions[s].shown = "navigation"
    /\ AdminPageRendered(sessions[s].auth)
    /\ seed_count < MaxSessionSeeds
    /\ SeedStart(s)
    /\ RunInitDb
    /\ pc' = "click_admin_seed"
    /\ args' = [session |-> s]
    /\ SessionFrame

\* seed_demo_data(): replace_table("workspace_data", ...), lines 426-453
SeedWorkspaceDataStep(s) ==
    /\ sessions[s].op = "seed_data"
    /\ workspace_data' = SeedWorkspaceData(sessions[s].run)
    /\ sessions' = [sessions EXCEPT ![s].op = "seed_users"]
    /\ pc' = "seed_workspace_data"
    /\ args' = [session |-> s]
    /\ UNCHANGED <<db_ready, dim_user_schema, seed_count, SeedFirstTables,
                   workspace_datasets, dim_user>>
    /\ SessionFrame

\* seed_demo_data(): replace_table("dim_user", ...), lines 455-463, and the
\* st.rerun() after it
SeedUsersStep(s) ==
    /\ sessions[s].op = "seed_users"
    /\ dim_user' = SeedUsers
    /\ dim_user_schema' = ReplacedDimUser
    /\ sessions' = [sessions EXCEPT
                      ![s].op = "idle", ![s].run = 0,
                      ![s].shown = Render(sessions[s].auth, SeedUsers)]
    /\ pc' = "seed_users"
    /\ args' = [session |-> s]
    /\ UNCHANGED <<db_ready, seed_count, SeedFirstTables, workspace_datasets,
                   workspace_data>>
    /\ SessionFrame

\* the Login button of the sidebar is pressed
ClickLogin(s) ==
    /\ sessions[s].op = "idle"
    /\ sessions[s].shown = "login_form"
    /\ \E typed \in SessionLoginInputs :
        \E result \in login(dim_user, typed[1], typed[2], sessions[s].auth) :
            sessions' = [sessions EXCEPT
                           ![s].auth = result.auth,
                           ![s].shown = Render(result.auth, dim_user)]
    /\ RunInitDb
    /\ pc' = "click_login"
    /\ args' = [session |-> s]
    /\ UNCHANGED <<seed_count, SeedFirstTables, workspace_datasets,
                   workspace_data, dim_user>>
    /\ SessionFrame

\* the Logout button of the sidebar is pressed
ClickLogout(s) ==
    /\ sessions[s].op = "idle"
    /\ sessions[s].auth.logged_in
    /\ sessions[s].shown = "navigation"
    /\ sessions' = [sessions EXCEPT
                      ![s].auth = NoSession,
                      ![s].shown = Render(NoSession, dim_user)]
    /\ RunInitDb
    /\ pc' = "click_logout"
    /\ args' = [session |-> s]
    /\ UNCHANGED <<seed_count, SeedFirstTables, workspace_datasets,
                   workspace_data, dim_user>>
    /\ SessionFrame

\* the uploads saved so far by all sessions
SavesSoFar == sessions["s1"].saves + sessions["s2"].saves

\* Save to Workspace is pressed: dataset_id = uid("DS") and the INSERT INTO
\* workspace_datasets with row_count len(df), lines 827-840
ClickSave(s) ==
    /\ sessions[s].op = "idle"
    /\ sessions[s].auth.logged_in
    /\ sessions[s].shown = "navigation"
    /\ SavesSoFar < MaxSaves
    /\ \E n \in UploadLengths :
        LET dataset_id == DatasetUid(s, sessions[s].saves + 1)
        IN  /\ workspace_datasets' = workspace_datasets \cup
                  {[dataset_id |-> dataset_id, dept_id |-> None,
                    created_by |-> sessions[s].auth.username, row_count |-> n]}
            /\ sessions' = [sessions EXCEPT
                              ![s].op = "save_append",
                              ![s].dataset_id = dataset_id,
                              ![s].n_rows = n,
                              ![s].saves = sessions[s].saves + 1]
    /\ RunInitDb
    /\ pc' = "click_save"
    /\ args' = [session |-> s]
    /\ UNCHANGED <<seed_count, SeedFirstTables, workspace_data, dim_user>>
    /\ SessionFrame

\* Save to Workspace: append_table("workspace_data", ...) of the records of
\* the upload, lines 842-853
SaveAppend(s) ==
    /\ sessions[s].op = "save_append"
    /\ workspace_data' = workspace_data \cup
          {[data_id |-> DataUid(s, sessions[s].saves, i),
            dataset_id |-> sessions[s].dataset_id, row_index |-> i] :
              i \in 0..(sessions[s].n_rows - 1)}
    /\ sessions' = [sessions EXCEPT ![s].op = "idle", ![s].dataset_id = "",
                                    ![s].n_rows = 0]
    /\ pc' = "save_append"
    /\ args' = [session |-> s]
    /\ UNCHANGED <<db_ready, dim_user_schema, seed_count, SeedFirstTables,
                   workspace_datasets, dim_user>>
    /\ SessionFrame

\* Delete of a dataset card is pressed: DELETE FROM workspace_data WHERE
\* dataset_id = ?, line 774
ClickDelete(s) ==
    /\ sessions[s].op = "idle"
    /\ sessions[s].auth.logged_in
    /\ sessions[s].shown = "navigation"
    /\ \E ds \in workspace_datasets :
        /\ workspace_data' = {r \in workspace_data : r.dataset_id # ds.dataset_id}
        /\ sessions' = [sessions EXCEPT ![s].op = "delete_dataset",
                                        ![s].dataset_id = ds.dataset_id]
    /\ RunInitDb
    /\ pc' = "click_delete"
    /\ args' = [session |-> s]
    /\ UNCHANGED <<seed_count, SeedFirstTables, workspace_datasets, dim_user>>
    /\ SessionFrame

\* Delete: DELETE FROM workspace_datasets WHERE dataset_id = ?, line 775,
\* and the st.rerun() after it
DeleteDatasetRow(s) ==
    /\ sessions[s].op = "delete_dataset"
    /\ workspace_datasets' =
          {r \in workspace_datasets : r.dataset_id # sessions[s].dataset_id}
    /\ sessions' = [sessions EXCEPT ![s].op = "idle", ![s].dataset_id = ""]
    /\ pc' = "delete_dataset_row"
    /\ args' = [session |-> s]
    /\ UNCHANGED <<db_ready, dim_user_schema, seed_count, SeedFirstTables,
                   workspace_data, dim_user>>
    /\ SessionFrame

(***************************************************************************)
(* Specification SpecSessions: two browser sessions on one database.       *)
(***************************************************************************)
InitSessions ==
    /\ pc = "start"
    /\ args = [session |-> "s1"]
    /\ ret = {}
    /\ today = AppToday
    /\ db_ready = FALSE
    /\ dim_date = {}
    /\ fact_kpi_data = {}
    /\ seed_count = 0
    /\ dim_department = {}
    /\ dim_kpi = {}
    /\ fact_work_item = {}
    /\ dim_user = {}
    /\ dim_user_schema = NoTable
    /\ auth = NoSession
    /\ workspace_categories = {}
    /\ workspace_datasets = {}
    /\ workspace_data = {}
    /\ sessions = [s \in Sessions |-> IdleSession]

NextSessions ==
    \E s \in Sessions :
        \/ Visit(s)
        \/ ClickSidebarSeed(s)
        \/ ClickAdminSeed(s)
        \/ SeedWorkspaceDataStep(s)
        \/ SeedUsersStep(s)
        \/ ClickLogin(s)
        \/ ClickLogout(s)
        \/ ClickSave(s)
        \/ SaveAppend(s)
        \/ ClickDelete(s)
        \/ DeleteDatasetRow(s)

SpecSessions == InitSessions /\ [][NextSessions]_vars

(***************************************************************************)
(* Claims on concurrent sessions (SpecSessions)                            *)
(***************************************************************************)
\* no script of a session is between two of its statements
AllIdle == \A s \in Sessions : sessions[s].op = "idle"

\* C28: under any interleaving of sessions that save an upload, delete a
\* dataset and seed, once every operation in flight has completed each
\* workspace_data row's dataset_id is that of a workspace_datasets row and
\* each catalog row's row_count is the number of workspace_data rows stored
\* for it.
C28_WorkspaceConsistent ==
    AllIdle =>
        /\ \A r \in workspace_data :
               \E d \in workspace_datasets : d.dataset_id = r.dataset_id
        /\ \A d \in workspace_datasets :
               d.row_count =
                   Cardinality({r \in workspace_data : r.dataset_id = d.dataset_id})

RecentAbovePrevious ==
    LET recent == SeriesTail(args.series, args.periods)
        before == IF Len(args.series) > args.periods
                  THEN SeriesHead(args.series, Len(args.series) - args.periods)
                  ELSE <<args.series[1]>>
    IN  SumSeq(recent) * Len(before) > SumSeq(before) * Len(recent)

RecentBelowPrevious ==
    LET recent == SeriesTail(args.series, args.periods)
        before == IF Len(args.series) > args.periods
                  THEN SeriesHead(args.series, Len(args.series) - args.periods)
                  ELSE <<args.series[1]>>
    IN  SumSeq(recent) * Len(before) < SumSeq(before) * Len(recent)

\* C30: for every series of length >= 2, negative and mixed-sign values
\* included, the direction of calculate_trend agrees with the sign of the
\* movement: "up" only when the recent mean is strictly greater than the
\* previous baseline, "down" only when it is strictly smaller.
C30_DirectionAgreesWithMovement ==
    pc = "calculate_trend" /\ Len(args.series) >= 2 =>
        /\ ret.direction = "up" => RecentAbovePrevious
        /\ ret.direction = "down" => RecentBelowPrevious

(***************************************************************************)
(* Claims on the latest fact (SpecInsights)                                *)
(***************************************************************************)
\* the facts render_dept_dashboard can show for its department
DashboardScope ==
    {f \in fact_kpi_data :
        /\ f.date_id >= DateIdOf(AddDays(today, 0 - 30))
        /\ f.dept_id = args.dept_id
        /\ \E d \in dim_kpi : d.kpi_id = f.kpi_id}

\* one row of latest for each KPI of the scope, of the greatest date_id
GreatestPerKpi(latest, scope) ==
    /\ \A f \in scope : \E r \in latest : r.kpi_id = f.kpi_id
    /\ \A r \in latest :
        /\ \E f \in scope : f.kpi_id = r.kpi_id /\ f.date_id = r.date_id
        /\ \A f \in scope : f.kpi_id = r.kpi_id => f.date_id <= r.date_id

\* C25: for each KPI the fact generate_insights takes as latest has the
\* greatest date_id among the KPI's facts inside the lookback window and
\* the department scope, and the latest of render_dept_dashboard is the
\* fact of the greatest date_id in its 30-day window.
C25_LatestIsGreatestDate ==
    /\ pc = "generate_insights" => GreatestPerKpi(ret.latest, FactsInScope)
    /\ pc = "render_dept_dashboard" => GreatestPerKpi(ret.latest, DashboardScope)

\* generate_insights has taken the latest of three facts of a KPI inside
\* the window, with an older one outside of it
C25_Witness ==
    /\ pc = "generate_insights"
    /\ Cardinality({f \in FactsInScope : f.kpi_id = "MDS_K1"}) = 3
    /\ \E f \in fact_kpi_data : f.kpi_id = "MDS_K1" /\ f \notin FactsInScope
    /\ \E r \in ret.latest : r.kpi_id = "MDS_K1"

\* the facts whose kpi_id has no dim_kpi row
OrphanFacts == {f \in fact_kpi_data : \A d \in dim_kpi : d.kpi_id # f.kpi_id}

\* C26: a KPI fact whose kpi_id has no dim_kpi row never contributes to the
\* output of generate_insights: no insight and no latest row is about its
\* KPI, and the call returns what it can return on the table without such
\* facts.
C26_OrphanFactsDropped ==
    pc = "generate_insights" =>
        /\ \A i \in ret.insights : \A f \in OrphanFacts : i.kpi_id # f.kpi_id
        /\ \A r \in ret.latest : \A f \in OrphanFacts : r.kpi_id # f.kpi_id
        /\ ret \in generate_insights(fact_kpi_data \ OrphanFacts, dim_kpi,
                                     today, args.dept_id)

\* generate_insights has returned an insight on MDS_K1 from a table that
\* holds a breaching fact of SGS_K2 in the window and no SGS_K2 definition
C26_Witness ==
    /\ pc = "generate_insights"
    /\ \E f \in OrphanFacts :
        /\ f.kpi_id = "SGS_K2" /\ f.actual_value = 151
        /\ f.date_id = DateIdOf(today)
    /\ args.dept_id = None
    /\ \E i \in ret.insights : i.kpi_id = "MDS_K1"

(***************************************************************************)
(* Claims on the user table (SpecApp)                                      *)
(***************************************************************************)
\* C24: username is the primary key of dim_user: after any sequence of
\* init_db, seed_demo_data and Add User the table has that key, no two of
\* its rows share a username, and an Add User of an existing username has
\* not stored a second row.
C24_UsernameIsPrimaryKey ==
    db_ready =>
        /\ dim_user_schema.primary_key
        /\ \A u, v \in dim_user : u.username = v.username => u = v

\* C27: from a fresh database and after any reachable sequence of init_db,
\* seed, login and admin actions, an Add User with a non-empty username that
\* no row has yet and a non-empty password succeeds: it stores one new
\* enabled dim_user row of the chosen role and department and of the hash
\* of the password, the row a later login of that user matches.
C27_AddUserSucceeds ==
    [][pc' = "add_user" /\ args'.new_user # "" /\ args'.new_pass # ""
            /\ (\A u \in dim_user : u.username # args'.new_user)
        => /\ ret'.ok
           /\ dim_user' = dim_user \cup
                {[username |-> args'.new_user,
                  password_hash |-> sha256(args'.new_pass),
                  role |-> args'.new_role, dept_id |-> args'.new_dept,
                  is_enabled |-> 1]}]_vars

(***************************************************************************)
(* Export links and the import of an uploaded file                         *)
(*                                                                         *)
(* A table is the record of its column names and its rows, a row the       *)
(* sequence of its cells as text; "" is a missing value (NaN).  The file   *)
(* of a download link is the record of its extension and its content.      *)
(***************************************************************************)
\* df.to_csv(index=False): the header line and one line of fields per row
export_to_csv(df) ==
    [ext |-> "csv", lines |-> <<df.columns>> \o df.rows]

\* df.to_excel(writer, index=False, sheet_name='Data'): the cells of the
\* sheet that hold something, the header in row 1
export_to_excel(df) ==
    LET header == {[row |-> 1, col |-> c, value |-> df.columns[c]] :
                      c \in 1..Len(df.columns)}
        data == {[row |-> r + 1, col |-> c, value |-> df.rows[r][c]] :
                    r \in 1..Len(df.rows), c \in 1..Len(df.columns)}
    IN  [ext |-> "xlsx",
         cells |-> header \cup {x \in data : x.value # ""}]

\* df.to_json(orient='records'): one object per row, keyed by column name
export_to_json(df) ==
    [ext |-> "json",
     records |-> [r \in 1..Len(df.rows) |->
                     {[key |-> df.columns[c], value |-> df.rows[r][c]] :
                         c \in 1..Len(df.columns)}]]

\* a line of a CSV file without any character
IsBlankLine(line) == Len(line) = 1 /\ line[1] = ""

\* pd.read_csv(uploaded_file): the first line names the columns, blank
\* lines are skipped
read_csv(file) ==
    LET notBlank(line) == ~IsBlankLine(line)
        data == SelectSeq(Tail(file.lines), notBlank)
    IN  [ok |-> TRUE, n_rows |-> Len(data),
         columns |-> {file.lines[1][c] : c \in 1..Len(file.lines[1])}]

\* the greatest element of a set of numbers, 0 when it is empty
MaxOf(S) == IF S = {} THEN 0 ELSE CHOOSE n \in S : \A m \in S : m <= n

\* pd.read_excel(uploaded_file): row 1 names the columns, the rows below
\* it down to the last row that holds a cell are the data
read_excel(file) ==
    [ok |-> TRUE,
     n_rows |-> MaxOf({c.row : c \in file.cells}) - 1,
     columns |-> {c.value : c \in {x \in file.cells : x.row = 1}}]

\* st.file_uploader(type=['xlsx', 'xls', 'csv']) and lines 793-796: a file
\* of another type is not accepted, a .csv name is read as CSV and any
\* other as Excel
ImportFile(file) ==
    IF file.ext \notin {"xlsx", "xls", "csv"}
    THEN [ok |-> FALSE, n_rows |-> 0, columns |-> {}]
    ELSE IF file.ext = "csv" THEN read_csv(file) ELSE read_excel(file)

\* the file behind the download link of a format
ExportFile(df, format) ==
    CASE format = "csv" -> export_to_csv(df)
      [] format = "excel" -> export_to_excel(df)
      [] OTHER -> export_to_json(df)

(***************************************************************************)
(* Specification SpecExport: drawn tables exported and uploaded again.     *)
(***************************************************************************)
MaxExportRows == 2

ExportFormats == {"excel", "csv", "json"}

\* two columns of different names; the first cell of a row is a group or a
\* period and never missing
ExportColumns ==
    {<<a, b>> : a \in {"period", "cat"}, b \in {"total", "sum_v"}}
ExportRowsOf == {<<k, v>> : k \in {"A", "B"}, v \in {"30", ""}}

ExportTables ==
    [columns : ExportColumns,
     rows : UNION {[1..n -> ExportRowsOf] : n \in 0..MaxExportRows}]

InitExport ==
    /\ pc = "input"
    /\ args \in [table : ExportTables, format : ExportFormats]
    /\ ret = [ok |-> FALSE, n_rows |-> 0, columns |-> {}]
    /\ IdleDb

\* the table is exported in the format and the downloaded file is uploaded
\* in the Import Data tab
CallExportImport ==
    /\ pc = "input"
    /\ pc' = "export_import"
    /\ ret' = ImportFile(ExportFile(args.table, args.format))
    /\ UNCHANGED <<args, DbVars>>

NextExport == CallExportImport

SpecExport == InitExport /\ [][NextExport]_vars

(***************************************************************************)
(* Claims on export and import (SpecExport)                                *)
(***************************************************************************)
\* C23: for each of the formats Excel, CSV and JSON, exporting a table and
\* importing the exported file again gives a table of the same number of
\* rows and the same set of column names.
C23_ExportImportRoundTrip ==
    pc = "export_import" =>
        /\ ret.ok
        /\ ret.n_rows = Len(args.table.rows)
        /\ ret.columns = {args.table.columns[c] : c \in 1..Len(args.table.columns)}

====
